---- MODULE Spec2Model ----
(***************************************************************************)
(* Highway active validator (highway_core/active_validator.rs) over the    *)
(* protocol state it reads.  The active validator's handlers are pure      *)
(* operators from (validator, inputs, state) to (validator', effects); the *)
(* host delivers the returned vertices to the state before the next call.  *)
(***************************************************************************)
EXTENDS Integers, Sequences, FiniteSets, TLC

\* ------------------------------------------------------------------ bounds

\* Largest value of the host's clock.
MaxTime == 3
\* Largest number of units in the protocol state.
MaxUnits == 2
\* Block height at which the era ends: a block at EndHeight - 1 is terminal.
EndHeight == 2

\* ------------------------------------------------------------- validators

ALICE == 0
BOB == 1
Validators == {ALICE, BOB}
\* State::new_test(&[Weight(3), Weight(4)], 0)
Weights == [v \in Validators |-> IF v = ALICE THEN 3 ELSE 4]

\* Round exponents the host may set and peers may use.
Exps == {1, 2}
\* params().init_round_exp()
InitRoundExp == 2
Times == 0 .. MaxTime
\* Consensus values handed to propose.
Values == {"C0FFEE"}
NoValue == "none"

\* ------------------------------------------------------------ observations

\* Observation::None, Observation::Faulty; Observation::Correct(h) is h >= 1,
\* the position of the unit in the state's list of units.
Null == 0
Faulty == -1

IsCorrect(obs) == obs >= 1

\* ------------------------------------------------------- rounds and leaders

Pow2(e) == IF e = 0 THEN 1 ELSE IF e = 1 THEN 2 ELSE IF e = 2 THEN 4
           ELSE IF e = 3 THEN 8 ELSE IF e = 4 THEN 16 ELSE 32

\* state::round_len: 1 << round_exp
round_len(r_exp) == Pow2(r_exp)

\* state::round_id: (timestamp >> round_exp) << round_exp
round_id(t, r_exp) == (t \div Pow2(r_exp)) * Pow2(r_exp)

\* The seed of the era's leader sequence (State::new_test(weights, seed)).
VARIABLE seed

\* The leader schedule of the era: a fixed function of the timestamp and
\* the seed.  Both tables satisfy the test's leader(416) = ALICE and
\* leader(432) = BOB; with the first ALICE leads the rounds 0 and 2 and BOB
\* the round 4, with the second ALICE leads the round 0 and BOB the rounds
\* 2 and 4.
LeaderTable == <<ALICE, ALICE, BOB, ALICE, BOB, BOB, BOB>>

LeaderTableB == <<ALICE, BOB, BOB, ALICE, ALICE, BOB, BOB>>

\* A third table, with which BOB leads the round 0 and ALICE the round 2.
LeaderTableC == <<BOB, ALICE, BOB, ALICE, ALICE, BOB, BOB>>

leader(t) ==
    (IF seed = 0 THEN LeaderTable
     ELSE IF seed = 1 THEN LeaderTableB
     ELSE LeaderTableC)[(((t \div 2) + (t \div 16)) % 7) + 1]

\* ---------------------------------------------------------- protocol state
\* A state is [units |-> sequence of units, faulty |-> validators with
\* evidence against them].  A unit is
\*   [creator, seq_number, timestamp, round_exp, panorama, value, block, fc]
\* where block is the block the unit votes for (itself when it has a value)
\* and fc the fork choice of its panorama (a block's parent).

Hashes(st) == 1 .. Len(st.units)

\* Latest unit of creator v in the state, or Null.
LatestOf(st, v) ==
    LET hs == {h \in Hashes(st) : st.units[h].creator = v}
    IN  IF hs = {} THEN Null ELSE CHOOSE h \in hs : \A g \in hs : g <= h

\* State::panorama
panorama(st) ==
    [v \in Validators |-> IF v \in st.faulty THEN Faulty ELSE LatestOf(st, v)]

\* State::citable_panorama
citable_panorama(st) == panorama(st)

\* State::opt_evidence: the perpetrator stands for the evidence against it.
HasEvidence(st, v) == v \in st.faulty

\* State::is_faulty
state_is_faulty(st, v) == v \in st.faulty

\* Unit::previous
previous(st, h) ==
    LET u == st.units[h] IN IF IsCorrect(u.panorama[u.creator]) THEN u.panorama[u.creator] ELSE Null

\* Latest unit in the swimlane of h (h, its predecessor, ...) with a
\* timestamp of at most t, or Null.
RECURSIVE SwimlaneCutoff(_, _, _)
SwimlaneCutoff(st, h, t) ==
    IF h = Null THEN Null
    ELSE IF st.units[h].timestamp <= t THEN h
    ELSE SwimlaneCutoff(st, previous(st, h), t)

\* Panorama::cutoff
cutoff(pan, st, t) ==
    [v \in Validators |-> IF IsCorrect(pan[v]) THEN SwimlaneCutoff(st, pan[v], t) ELSE pan[v]]

\* Panorama::has_correct
has_correct(pan) == \E v \in Validators : IsCorrect(pan[v])

\* Panorama::next_seq_num
next_seq_num(pan, st, v) ==
    IF IsCorrect(pan[v]) THEN st.units[pan[v]].seq_number + 1 ELSE 0

\* Whether g is h or a predecessor of h in h's swimlane.
RECURSIVE InSwimlane(_, _, _)
InSwimlane(st, g, h) ==
    IF h = Null THEN FALSE
    ELSE IF g = h THEN TRUE
    ELSE InSwimlane(st, g, previous(st, h))

\* Panorama::sees_correct
sees_correct(pan, st, h) ==
    LET c == st.units[h].creator
    IN  IsCorrect(pan[c]) /\ InSwimlane(st, h, pan[c])

\* Merge of two observations of the same validator: the later one.
MergeObs(st, a, b) ==
    IF a = Faulty \/ b = Faulty THEN Faulty
    ELSE IF a = Null THEN b
    ELSE IF b = Null THEN a
    ELSE IF InSwimlane(st, a, b) THEN b
    ELSE IF InSwimlane(st, b, a) THEN a
    ELSE Faulty

\* Panorama::merge
merge(st, p, q) == [v \in Validators |-> MergeObs(st, p[v], q[v])]

\* State::inclusive_panorama
inclusive_panorama(st, h) ==
    [st.units[h].panorama EXCEPT ![st.units[h].creator] = h]

\* State::confirmation_panorama: the proposal and what it cites, joined with
\* the creator's own latest unit.
confirmation_panorama(st, creator, h) ==
    LET pan == inclusive_panorama(st, h)
        prev == panorama(st)[creator]
    IN  IF IsCorrect(prev) /\ pan[creator] # prev
        THEN merge(st, pan, inclusive_panorama(st, prev))
        ELSE pan

\* Unit::new_hash_obs: the unit cites a unit of v that its predecessor did
\* not cite.
new_hash_obs(st, h, v) ==
    LET u == st.units[h]
        prev == previous(st, h)
    IN  /\ IsCorrect(u.panorama[v])
        /\ \/ prev = Null
           \/ st.units[prev].panorama[v] # u.panorama[v]

\* ---------------------------------------------------------------- blocks

IsBlock(st, h) == st.units[h].value # NoValue

\* Parent of block b: the fork choice of its panorama (Null at genesis).
Parent(st, b) == st.units[b].fc

RECURSIVE height(_, _)
height(st, b) == IF Parent(st, b) = Null THEN 0 ELSE height(st, Parent(st, b)) + 1

\* Whether block a is b or an ancestor of b.
RECURSIVE IsAncestor(_, _, _)
IsAncestor(st, a, b) ==
    IF b = Null THEN FALSE
    ELSE IF a = b THEN TRUE
    ELSE IsAncestor(st, a, Parent(st, b))

\* Weight of the validators whose latest unit in pan votes for b or a
\* descendant of b.
VoteWeight(st, pan, b) ==
    LET voters == {v \in Validators :
                      /\ IsCorrect(pan[v])
                      /\ IsAncestor(st, b, st.units[pan[v]].block)}
    IN  (IF ALICE \in voters THEN Weights[ALICE] ELSE 0)
        + (IF BOB \in voters THEN Weights[BOB] ELSE 0)

\* One step of the walk: the heaviest voted child of cur, ties to the
\* smaller hash; cur itself when no child has votes.
RECURSIVE Walk(_, _, _)
Walk(st, pan, cur) ==
    LET kids == {b \in Hashes(st) :
                    /\ IsBlock(st, b)
                    /\ Parent(st, b) = cur
                    /\ VoteWeight(st, pan, b) > 0}
    IN  IF kids = {} THEN cur
        ELSE Walk(st, pan,
                  CHOOSE b \in kids : \A c \in kids :
                      \/ VoteWeight(st, pan, b) > VoteWeight(st, pan, c)
                      \/ (VoteWeight(st, pan, b) = VoteWeight(st, pan, c) /\ b <= c))

\* State::fork_choice: Null when the panorama sees no block.
fork_choice(st, pan) == Walk(st, pan, Null)

\* State::is_terminal_block
is_terminal_block(st, b) == height(st, b) + 1 >= EndHeight

\* State::is_correct_proposal
is_correct_proposal(st, u) ==
    /\ u.value # NoValue
    /\ u.creator \notin st.faulty
    /\ u.timestamp = round_id(u.timestamp, u.round_exp)
    /\ leader(u.timestamp) = u.creator

\* State::add_unit for a unit that passed validation: the unit is appended
\* with the block it votes for.
add_unit(st, wunit) ==
    LET fc == fork_choice(st, wunit.panorama)
        h == Len(st.units) + 1
        u == [creator |-> wunit.creator, seq_number |-> wunit.seq_number,
              timestamp |-> wunit.timestamp, round_exp |-> wunit.round_exp,
              panorama |-> wunit.panorama, value |-> wunit.value,
              block |-> IF wunit.value # NoValue THEN h ELSE fc, fc |-> fc]
    IN  [st EXCEPT !.units = Append(@, u)]

\* State::add_evidence
add_evidence(st, v) == [st EXCEPT !.faulty = @ \cup {v}]

\* ------------------------------------------------------------------ effects

\* Effect::ScheduleTimer
EffScheduleTimer(t) == [type |-> "ScheduleTimer", time |-> t]
\* Effect::RequestNewBlock(BlockContext::new(timestamp, height))
EffRequestNewBlock(t, hgt) == [type |-> "RequestNewBlock", time |-> t, height |-> hgt]
\* Effect::NewVertex(ValidVertex(Vertex::Unit(swunit)))
EffNewUnit(wunit) == [type |-> "NewVertex", vertex |-> "Unit", unit |-> wunit]
\* Effect::NewVertex(ValidVertex(Vertex::Endorsements(..)))
EffEndorsement(h, v) == [type |-> "NewVertex", vertex |-> "Endorsements", hash |-> h, endorser |-> v]
\* Effect::WeEquivocated(evidence)
EffWeEquivocated(v) == [type |-> "WeEquivocated", perpetrator |-> v]

\* Option values: None is the empty sequence, Some(x) is <<x>>.
None == <<>>
Some(x) == <<x>>

\* ------------------------------------------------------- active validator
\* An active validator is
\*   [vidx, next_round_exp, next_timer, next_proposal]
\* with next_proposal None or Some([time, panorama]).

\* ActiveValidator::latest_unit: the hash of our latest unit, or Null.
latest_unit(a, st) ==
    IF IsCorrect(panorama(st)[a.vidx]) THEN panorama(st)[a.vidx] ELSE Null

\* is_faulty that never sees the mark.
is_faulty_Never(a, st) == FALSE

\* ActiveValidator::is_faulty
is_faulty(a, st) == panorama(st)[a.vidx] = Faulty

\* witness_offset at half of the round.
witness_offset_Half(len) == len \div 2

\* ActiveValidator::witness_offset
witness_offset(len) == (len * 2) \div 3

\* round_exp that always takes the exponent set last.
round_exp_Next(a, st, t) == a.next_round_exp

\* ActiveValidator::round_exp
round_exp(a, st, t) ==
    LET h == latest_unit(a, st)
    IN  IF h = Null THEN a.next_round_exp
        ELSE LET u == st.units[h]
                 max_re == IF a.next_round_exp >= u.round_exp
                           THEN a.next_round_exp ELSE u.round_exp
             IN  IF u.timestamp < round_id(t, max_re)
                 THEN a.next_round_exp
                 ELSE u.round_exp

\* earliest_unit_time that forgets the round of the unit before the latest.
earliest_unit_time_LatestOnly(a, st) ==
    LET h == latest_unit(a, st)
    IN  IF h = Null THEN 0 ELSE st.units[h].timestamp

\* ActiveValidator::earliest_unit_time
earliest_unit_time(a, st) ==
    LET h == latest_unit(a, st)
    IN  IF h = Null THEN 0
        ELSE LET u == st.units[h]
                 vh2 == previous(st, h)
             IN  IF vh2 = Null THEN u.timestamp
                 ELSE LET unit2 == st.units[vh2]
                          round_end == round_id(unit2.timestamp, unit2.round_exp)
                                       + round_len(unit2.round_exp)
                      IN  IF u.timestamp >= round_end THEN u.timestamp ELSE round_end

\* schedule_timer that reschedules although a later timer is scheduled.
schedule_timer_Always(a, t, st) ==
    LET r_exp == round_exp(a, st, t)
        r_id == round_id(t, r_exp)
        r_len == round_len(r_exp)
        next_r_id == r_id + r_len
        next_r_exp == round_exp(a, st, next_r_id)
        nt == IF t < r_id + witness_offset(r_len)
              THEN r_id + witness_offset(r_len)
              ELSE IF leader(next_r_id) = a.vidx
                   THEN next_r_id
                   ELSE next_r_id + witness_offset(round_len(next_r_exp))
    IN  [av |-> [a EXCEPT !.next_timer = nt],
         effects |-> <<EffScheduleTimer(nt)>>]

\* schedule_timer that always goes on to the next round.
schedule_timer_SkipWitness(a, t, st) ==
    IF a.next_timer > t THEN [av |-> a, effects |-> <<>>]
    ELSE LET r_exp == round_exp(a, st, t)
             r_id == round_id(t, r_exp)
             r_len == round_len(r_exp)
             next_r_id == r_id + r_len
             next_r_exp == round_exp(a, st, next_r_id)
             nt == IF leader(next_r_id) = a.vidx
                   THEN next_r_id
                   ELSE next_r_id + witness_offset(round_len(next_r_exp))
         IN  [av |-> [a EXCEPT !.next_timer = nt],
              effects |-> <<EffScheduleTimer(nt)>>]

\* ActiveValidator::schedule_timer
schedule_timer(a, t, st) ==
    IF a.next_timer > t THEN [av |-> a, effects |-> <<>>]
    ELSE LET r_exp == round_exp(a, st, t)
             r_id == round_id(t, r_exp)
             r_len == round_len(r_exp)
             next_r_id == r_id + r_len
             next_r_exp == round_exp(a, st, next_r_id)
             nt == IF t < r_id + witness_offset(r_len)
                   THEN r_id + witness_offset(r_len)
                   ELSE IF leader(next_r_id) = a.vidx
                        THEN next_r_id
                        ELSE next_r_id + witness_offset(round_len(next_r_exp))
         IN  [av |-> [a EXCEPT !.next_timer = nt],
              effects |-> <<EffScheduleTimer(nt)>>]

\* new_unit that reuses the sequence number of the cited own unit.
new_unit_SameSeq(a, pan, t, value, st) ==
    LET pan2 == IF pan[a.vidx] # panorama(st)[a.vidx] THEN citable_panorama(st) ELSE pan
    IN  [av |-> [a EXCEPT !.next_proposal = None],
         wunit |-> [panorama |-> pan2,
                    creator |-> a.vidx,
                    value |-> value,
                    seq_number |-> IF IsCorrect(pan2[a.vidx])
                                   THEN st.units[pan2[a.vidx]].seq_number ELSE 0,
                    timestamp |-> t,
                    round_exp |-> round_exp(a, st, t)]]

\* new_unit that keeps the pending proposal.
new_unit_KeepProposal(a, pan, t, value, st) ==
    LET pan2 == IF pan[a.vidx] # panorama(st)[a.vidx] THEN citable_panorama(st) ELSE pan
    IN  [av |-> a,
         wunit |-> [panorama |-> pan2,
                    creator |-> a.vidx,
                    value |-> value,
                    seq_number |-> next_seq_num(pan2, st, a.vidx),
                    timestamp |-> t,
                    round_exp |-> round_exp(a, st, t)]]

\* ActiveValidator::new_unit
new_unit(a, pan, t, value, st) ==
    LET pan2 == IF pan[a.vidx] # panorama(st)[a.vidx] THEN citable_panorama(st) ELSE pan
    IN  [av |-> [a EXCEPT !.next_proposal = None],
         wunit |-> [panorama |-> pan2,
                    creator |-> a.vidx,
                    value |-> value,
                    seq_number |-> next_seq_num(pan2, st, a.vidx),
                    timestamp |-> t,
                    round_exp |-> round_exp(a, st, t)]]

\* request_new_block that stores the citable panorama without the cutoff.
request_new_block_NoCutoff(a, st, t) ==
    IF a.next_proposal # None THEN [av |-> a, effects |-> <<>>]
    ELSE LET pan == citable_panorama(st)
             parent == fork_choice(st, pan)
         IN  IF parent # Null /\ is_terminal_block(st, parent)
             THEN LET n == new_unit(a, pan, t, NoValue, st)
                  IN  [av |-> n.av, effects |-> <<EffNewUnit(n.wunit)>>]
             ELSE [av |-> [a EXCEPT !.next_proposal = Some([time |-> t, panorama |-> pan])],
                   effects |-> <<EffRequestNewBlock(t,
                                    IF parent = Null THEN 0 ELSE height(st, parent))>>]

\* request_new_block without the check for a pending proposal.
request_new_block_Overwrite(a, st, t) ==
    LET pan == cutoff(citable_panorama(st), st, t)
        parent == fork_choice(st, pan)
    IN  IF parent # Null /\ is_terminal_block(st, parent)
        THEN LET n == new_unit(a, pan, t, NoValue, st)
             IN  [av |-> n.av, effects |-> <<EffNewUnit(n.wunit)>>]
        ELSE [av |-> [a EXCEPT !.next_proposal = Some([time |-> t, panorama |-> pan])],
              effects |-> <<EffRequestNewBlock(t,
                               IF parent = Null THEN 0 ELSE height(st, parent))>>]

\* request_new_block that requests a value also after a terminal block.
request_new_block_NoTerminal(a, st, t) ==
    IF a.next_proposal # None THEN [av |-> a, effects |-> <<>>]
    ELSE LET pan == cutoff(citable_panorama(st), st, t)
             parent == fork_choice(st, pan)
         IN  [av |-> [a EXCEPT !.next_proposal = Some([time |-> t, panorama |-> pan])],
              effects |-> <<EffRequestNewBlock(t,
                               IF parent = Null THEN 0 ELSE height(st, parent))>>]

\* ActiveValidator::request_new_block
request_new_block(a, st, t) ==
    IF a.next_proposal # None THEN [av |-> a, effects |-> <<>>]
    ELSE LET pan == cutoff(citable_panorama(st), st, t)
             parent == fork_choice(st, pan)
         IN  IF parent # Null /\ is_terminal_block(st, parent)
             THEN LET n == new_unit(a, pan, t, NoValue, st)
                  IN  [av |-> n.av, effects |-> <<EffNewUnit(n.wunit)>>]
             ELSE [av |-> [a EXCEPT !.next_proposal = Some([time |-> t, panorama |-> pan])],
                   effects |-> <<EffRequestNewBlock(t,
                                    IF parent = Null THEN 0 ELSE height(st, parent))>>]

\* handle_timer without the check for an outdated timer event.
handle_timer_NoStaleCheck(a, t, st) ==
    IF is_faulty(a, st) THEN [av |-> a, effects |-> <<>>]
    ELSE LET s == schedule_timer(a, t, st)
             r_exp == round_exp(s.av, st, t)
             r_id == round_id(t, r_exp)
             r_len == round_len(r_exp)
             pan == cutoff(citable_panorama(st), st, t)
         IN  IF t = r_id /\ leader(r_id) = a.vidx
             THEN LET r == request_new_block(s.av, st, t)
                  IN  [av |-> r.av, effects |-> s.effects \o r.effects]
             ELSE IF t = r_id + witness_offset(r_len) /\ has_correct(pan)
             THEN LET n == new_unit(s.av, pan, t, NoValue, st)
                  IN  [av |-> n.av, effects |-> Append(s.effects, EffNewUnit(n.wunit))]
             ELSE s

\* handle_timer whose witness unit cites the panorama without the cutoff.
handle_timer_NoCutoff(a, t, st) ==
    IF is_faulty(a, st) THEN [av |-> a, effects |-> <<>>]
    ELSE LET s == schedule_timer(a, t, st)
             r_exp == round_exp(s.av, st, t)
             r_id == round_id(t, r_exp)
             r_len == round_len(r_exp)
             pan == citable_panorama(st)
         IN  IF earliest_unit_time(s.av, st) > t THEN s
             ELSE IF t = r_id /\ leader(r_id) = a.vidx
             THEN LET r == request_new_block(s.av, st, t)
                  IN  [av |-> r.av, effects |-> s.effects \o r.effects]
             ELSE IF t = r_id + witness_offset(r_len) /\ has_correct(pan)
             THEN LET n == new_unit(s.av, pan, t, NoValue, st)
                  IN  [av |-> n.av, effects |-> Append(s.effects, EffNewUnit(n.wunit))]
             ELSE s

\* handle_timer that returns the timer after the other effects.
handle_timer_ScheduleLast(a, t, st) ==
    IF is_faulty(a, st) THEN [av |-> a, effects |-> <<>>]
    ELSE LET s == schedule_timer(a, t, st)
             r_exp == round_exp(s.av, st, t)
             r_id == round_id(t, r_exp)
             r_len == round_len(r_exp)
             pan == cutoff(citable_panorama(st), st, t)
         IN  IF earliest_unit_time(s.av, st) > t THEN s
             ELSE IF t = r_id /\ leader(r_id) = a.vidx
             THEN LET r == request_new_block(s.av, st, t)
                  IN  [av |-> r.av, effects |-> r.effects \o s.effects]
             ELSE IF t = r_id + witness_offset(r_len) /\ has_correct(pan)
             THEN LET n == new_unit(s.av, pan, t, NoValue, st)
                  IN  [av |-> n.av, effects |-> <<EffNewUnit(n.wunit)>> \o s.effects]
             ELSE s

\* ActiveValidator::handle_timer
handle_timer(a, t, st) ==
    IF is_faulty(a, st) THEN [av |-> a, effects |-> <<>>]
    ELSE LET s == schedule_timer(a, t, st)
             r_exp == round_exp(s.av, st, t)
             r_id == round_id(t, r_exp)
             r_len == round_len(r_exp)
             pan == cutoff(citable_panorama(st), st, t)
         IN  IF earliest_unit_time(s.av, st) > t THEN s
             ELSE IF t = r_id /\ leader(r_id) = a.vidx
             THEN LET r == request_new_block(s.av, st, t)
                  IN  [av |-> r.av, effects |-> s.effects \o r.effects]
             ELSE IF t = r_id + witness_offset(r_len) /\ has_correct(pan)
             THEN LET n == new_unit(s.av, pan, t, NoValue, st)
                  IN  [av |-> n.av, effects |-> Append(s.effects, EffNewUnit(n.wunit))]
             ELSE s

\* should_send_confirmation without the check that the unit is a correct
\* proposal.
should_send_confirmation_AnyUnit(a, h, t, st) ==
    LET u == st.units[h]
        own == latest_unit(a, st)
    IN  /\ ~(t < earliest_unit_time(a, st))
        /\ ~(u.timestamp > t)
        /\ ~(u.creator = a.vidx \/ is_faulty(a, st))
        /\ ~(own # Null /\ sees_correct(st.units[own].panorama, st, h))
        /\ u.timestamp = round_id(t, round_exp(a, st, t))

\* should_send_confirmation without the check that our latest unit sees
\* the proposal already.
should_send_confirmation_NoSeenCheck(a, h, t, st) ==
    LET u == st.units[h]
    IN  /\ ~(t < earliest_unit_time(a, st))
        /\ ~(u.timestamp > t)
        /\ ~(u.creator = a.vidx \/ is_faulty(a, st) \/ ~is_correct_proposal(st, u))
        /\ u.timestamp = round_id(t, round_exp(a, st, t))

\* should_send_confirmation without the check of the round.
should_send_confirmation_NoRoundCheck(a, h, t, st) ==
    LET u == st.units[h]
        own == latest_unit(a, st)
    IN  /\ ~(t < earliest_unit_time(a, st))
        /\ ~(u.timestamp > t)
        /\ ~(u.creator = a.vidx \/ is_faulty(a, st) \/ ~is_correct_proposal(st, u))
        /\ ~(own # Null /\ sees_correct(st.units[own].panorama, st, h))

\* ActiveValidator::should_send_confirmation
should_send_confirmation(a, h, t, st) ==
    LET u == st.units[h]
        own == latest_unit(a, st)
    IN  /\ ~(t < earliest_unit_time(a, st))
        /\ ~(u.timestamp > t)
        /\ ~(u.creator = a.vidx \/ is_faulty(a, st) \/ ~is_correct_proposal(st, u))
        /\ ~(own # Null /\ sees_correct(st.units[own].panorama, st, h))
        /\ u.timestamp = round_id(t, round_exp(a, st, t))

\* should_endorse without the check that the unit's creator is honest.
should_endorse_FaultyCreator(a, h, st) ==
    \E v \in Validators : state_is_faulty(st, v) /\ new_hash_obs(st, h, v)

\* ActiveValidator::should_endorse
should_endorse(a, h, st) ==
    /\ ~state_is_faulty(st, st.units[h].creator)
    /\ \E v \in Validators : state_is_faulty(st, v) /\ new_hash_obs(st, h, v)

\* ActiveValidator::endorse
endorse(a, h) == EffEndorsement(h, a.vidx)

\* on_new_unit without the check for evidence against ourselves.
on_new_unit_NoEvidenceCheck(a, h, now, st) ==
    LET pan == confirmation_panorama(st, a.vidx, h)
        confirm == should_send_confirmation(a, h, now, st) /\ has_correct(pan)
        n == new_unit(a, pan, now, NoValue, st)
    IN  [av |-> IF confirm THEN n.av ELSE a,
         effects |-> (IF confirm THEN <<EffNewUnit(n.wunit)>> ELSE <<>>)
                     \o (IF should_endorse(a, h, st) THEN <<endorse(a, h)>> ELSE <<>>)]

\* ActiveValidator::on_new_unit
on_new_unit(a, h, now, st) ==
    IF HasEvidence(st, a.vidx)
    THEN [av |-> a, effects |-> <<EffWeEquivocated(a.vidx)>>]
    ELSE LET pan == confirmation_panorama(st, a.vidx, h)
             confirm == should_send_confirmation(a, h, now, st) /\ has_correct(pan)
             n == new_unit(a, pan, now, NoValue, st)
         IN  [av |-> IF confirm THEN n.av ELSE a,
              effects |-> (IF confirm THEN <<EffNewUnit(n.wunit)>> ELSE <<>>)
                          \o (IF should_endorse(a, h, st) THEN <<endorse(a, h)>> ELSE <<>>)]

\* State::iter_correct_hashes: the correct hashes of the state's panorama,
\* by validator index.
iter_correct_hashes(st) ==
    (IF IsCorrect(panorama(st)[ALICE]) THEN <<panorama(st)[ALICE]>> ELSE <<>>)
    \o (IF IsCorrect(panorama(st)[BOB]) THEN <<panorama(st)[BOB]>> ELSE <<>>)

\* on_new_evidence that endorses every latest correct unit.
on_new_evidence_All(a, perpetrator, st) ==
    LET hs == iter_correct_hashes(st)
    IN  [av |-> a, effects |-> [i \in 1 .. Len(hs) |-> endorse(a, hs[i])]]

\* ActiveValidator::on_new_evidence
on_new_evidence(a, perpetrator, st) ==
    LET hs == SelectSeq(iter_correct_hashes(st), LAMBDA v : new_hash_obs(st, v, perpetrator))
    IN  [av |-> a, effects |-> [i \in 1 .. Len(hs) |-> endorse(a, hs[i])]]

\* propose that accepts a value for another timestamp than the pending one.
propose_NoTimeCheck(a, value, t, st) ==
    IF earliest_unit_time(a, st) > t THEN [av |-> a, effects |-> <<>>]
    ELSE IF is_faulty(a, st) THEN [av |-> a, effects |-> <<>>]
    ELSE IF a.next_proposal = None THEN [av |-> a, effects |-> <<>>]
    ELSE LET n == new_unit([a EXCEPT !.next_proposal = None],
                           a.next_proposal[1].panorama, t, value, st)
         IN  [av |-> n.av, effects |-> <<EffNewUnit(n.wunit)>>]

\* propose that cites the state's panorama instead of the stored one.
propose_FreshPanorama(a, value, t, st) ==
    IF earliest_unit_time(a, st) > t THEN [av |-> a, effects |-> <<>>]
    ELSE IF is_faulty(a, st) THEN [av |-> a, effects |-> <<>>]
    ELSE IF a.next_proposal = None THEN [av |-> a, effects |-> <<>>]
    ELSE IF a.next_proposal[1].time # t
         THEN [av |-> [a EXCEPT !.next_proposal = None], effects |-> <<>>]
    ELSE LET n == new_unit([a EXCEPT !.next_proposal = None],
                           citable_panorama(st), t, value, st)
         IN  [av |-> n.av, effects |-> <<EffNewUnit(n.wunit)>>]

\* propose that leaves the pending proposal in place on a timestamp mismatch.
propose_KeepOnMismatch(a, value, t, st) ==
    IF earliest_unit_time(a, st) > t THEN [av |-> a, effects |-> <<>>]
    ELSE IF is_faulty(a, st) THEN [av |-> a, effects |-> <<>>]
    ELSE IF a.next_proposal = None THEN [av |-> a, effects |-> <<>>]
    ELSE IF a.next_proposal[1].time # t THEN [av |-> a, effects |-> <<>>]
    ELSE LET n == new_unit([a EXCEPT !.next_proposal = None],
                           a.next_proposal[1].panorama, t, value, st)
         IN  [av |-> n.av, effects |-> <<EffNewUnit(n.wunit)>>]

\* ActiveValidator::propose
propose(a, value, t, st) ==
    IF earliest_unit_time(a, st) > t THEN [av |-> a, effects |-> <<>>]
    ELSE IF is_faulty(a, st) THEN [av |-> a, effects |-> <<>>]
    ELSE IF a.next_proposal = None THEN [av |-> a, effects |-> <<>>]
    ELSE IF a.next_proposal[1].time # t
         THEN [av |-> [a EXCEPT !.next_proposal = None], effects |-> <<>>]
    ELSE LET n == new_unit([a EXCEPT !.next_proposal = None],
                           a.next_proposal[1].panorama, t, value, st)
         IN  [av |-> n.av, effects |-> <<EffNewUnit(n.wunit)>>]

\* ActiveValidator::set_round_exp
set_round_exp(a, new_round_exp) == [a EXCEPT !.next_round_exp = new_round_exp]

\* ActiveValidator::new
new(vidx, start_time, st) ==
    schedule_timer([vidx |-> vidx, next_round_exp |-> InitRoundExp,
                    next_timer |-> 0, next_proposal |-> None],
                   start_time, st)

\* ------------------------------------------------------------ the system
\* state     the protocol state (State<C>)
\* av        the active validator of ALICE
\* peer_av   the active validator of BOB; it takes part in the test run
\*           only, elsewhere the units of BOB are arbitrary
\* pc        "returned" right after a handler returned, before the host has
\*           handled its effects; "idle" otherwise
\* effects   the effects the last handler returned (pc = "returned")
\* call      the last handler call: its name, its inputs and the active
\*           validator as it was before the call (pc = "returned")
\* scheduled the latest timer the host was asked to schedule (-1: none)
\* clock     the host's clock (Timestamp::now())
\* es        the era supervisor of an observer node and what its reactor saw
\* ur        the URef being formatted and parsed
\* lc        the linear chain component and its requests in flight
\* hist      the start time of the validator and the handle_timer calls of
\*           the timer schedule: time and outcome of each
\*           (the era supervisor test)

VARIABLES state, av, peer_av, pc, effects, call, scheduled, clock, es, ur, lc, hist

vars == <<state, av, peer_av, pc, effects, call, scheduled, clock, seed, es, ur, lc, hist>>

Call(op, t, h, a) == [op |-> op, time |-> t, hash |-> h, av |-> a]

UnitEffects(effs) ==
    SelectSeq(effs, LAMBDA e : e.type = "NewVertex" /\ e.vertex = "Unit")

TimerEffects(effs) == SelectSeq(effs, LAMBDA e : e.type = "ScheduleTimer")

\* The bounded state has room for the units of effs.
Fits(effs) == Len(state.units) + Len(UnitEffects(effs)) <= MaxUnits

\* A handler that adds the unit it returns to the state itself.
Return_AddsUnit(r, c) ==
    /\ av' = r.av
    /\ effects' = r.effects
    /\ call' = c
    /\ pc' = "returned"
    /\ state' = IF UnitEffects(r.effects) = <<>> THEN state
                ELSE add_unit(state, UnitEffects(r.effects)[1].unit)
    /\ UNCHANGED <<peer_av, scheduled, clock, seed, es, ur, lc, hist>>

\* A handler returned r: the validator is updated, the effects are handed to
\* the host, the state is only read.
Return(r, c) ==
    /\ av' = r.av
    /\ effects' = r.effects
    /\ call' = c
    /\ pc' = "returned"
    /\ UNCHANGED <<state, peer_av, scheduled, clock, seed, es, ur, lc, hist>>

EmptyState == [units |-> <<>>, faulty |-> {}]

\* An era supervisor that has handled no event: no evidence known, no
\* candidate block, no finalized block, nothing sent to the reactor.
NoEra ==
    [known |-> {}, cand |-> None, height |-> 0, accused |-> {}, received |-> 0,
     event |-> "new", effects |-> <<>>, log |-> <<>>]

\* No URef formatted yet.
NoURef == [pc |-> "new", uref |-> <<>>, str |-> <<>>, result |-> <<>>]

\* LinearChain::new(): last_block is None, nothing is in flight.
NoChain ==
    [last_block |-> None, prev |-> None, putting |-> {}, completing |-> {},
     signing |-> {}, getting |-> {}, stored |-> {}, produced |-> 0,
     event |-> [type |-> "new"], response |-> None]

\* No timer call has been recorded.
NoHist == [start |-> 0, calls |-> {}]

Init ==
    /\ seed = 0
    /\ state = EmptyState
    /\ scheduled = -1
    /\ es = NoEra
    /\ ur = NoURef
    /\ lc = NoChain
    /\ hist = NoHist
    /\ pc = "returned"
    /\ clock \in Times
    /\ \E start_time \in {clock} :
          LET a0 == [vidx |-> ALICE, next_round_exp |-> InitRoundExp,
                     next_timer |-> 0, next_proposal |-> None]
              r == new(ALICE, start_time, state)
          IN  /\ av = r.av
              /\ peer_av = [a0 EXCEPT !.vidx = BOB]
              /\ effects = r.effects
              /\ call = Call("new", start_time, Null, a0)

HandleTimer ==
    /\ pc = "idle"
    /\ \E t \in 0 .. clock :
          Return(handle_timer(av, t, state), Call("handle_timer", t, Null, av))

OnNewUnit ==
    /\ pc = "idle"
    /\ \E h \in Hashes(state), now \in {clock} :
          Return(on_new_unit(av, h, now, state), Call("on_new_unit", now, h, av))

OnNewEvidence ==
    /\ pc = "idle"
    /\ \E v \in state.faulty :
          Return(on_new_evidence(av, v, state), Call("on_new_evidence", 0, v, av))

Propose ==
    /\ pc = "idle"
    /\ \E value \in Values, t \in 0 .. clock :
          Return(propose(av, value, t, state), Call("propose", t, Null, av))

SetRoundExp ==
    /\ pc = "idle"
    /\ \E e \in Exps : av' = set_round_exp(av, e)
    /\ UNCHANGED <<state, peer_av, pc, effects, call, scheduled, clock, seed, es, ur, lc, hist>>

RECURSIVE AddUnits(_, _)
AddUnits(st, effs) ==
    IF effs = <<>> THEN st
    ELSE AddUnits(add_unit(st, Head(effs).unit), Tail(effs))

MaxTimer(effs, m) ==
    LET ts == {effs[i].time : i \in 1 .. Len(effs)} \cup {m}
    IN  CHOOSE x \in ts : \A y \in ts : y <= x

\* The host handles the returned effects: every NewVertex unit is added to
\* the state, every timer is scheduled.
Deliver ==
    /\ pc = "returned"
    /\ Fits(effects)
    /\ state' = AddUnits(state, UnitEffects(effects))
    /\ scheduled' = MaxTimer(TimerEffects(effects), scheduled)
    /\ pc' = "idle"
    /\ effects' = <<>>
    /\ call' = Call("none", 0, Null, av)
    /\ UNCHANGED <<av, peer_av, clock, seed, es, ur, lc, hist>>

\* The units a non-equivocating peer can create at time t: a unit that cites
\* everything the state holds, with or without a value, a proposal in a round
\* of any length.  (The round exponent of a unit without a value is read by
\* nothing the active validator calls; such units carry InitRoundExp.)
PeerUnits(st, t) ==
    {w \in [panorama : {panorama(st)},
            creator : {BOB},
            value : Values \cup {NoValue},
            seq_number : {next_seq_num(panorama(st), st, BOB)},
            timestamp : {t},
            round_exp : Exps] :
        /\ \A v \in Validators :
              IsCorrect(w.panorama[v]) => st.units[w.panorama[v]].timestamp <= w.timestamp
        /\ w.value = NoValue =>
              (w.round_exp = InitRoundExp /\ fork_choice(st, w.panorama) # Null)}

\* A unit of the peer arrives and is added to the state.
AddPeerUnit ==
    /\ pc = "idle"
    /\ BOB \notin state.faulty
    /\ Len(state.units) < MaxUnits
    /\ \E w \in PeerUnits(state, clock) : state' = add_unit(state, w)
    /\ UNCHANGED <<av, peer_av, pc, effects, call, scheduled, clock, seed, es, ur, lc, hist>>

\* Evidence against a validator arrives and is added to the state.  At most
\* one validator of the two is convicted.
AddEvidence ==
    /\ pc = "idle"
    /\ state.faulty = {}
    /\ \E v \in Validators : state' = add_evidence(state, v)
    /\ UNCHANGED <<av, peer_av, pc, effects, call, scheduled, clock, seed, es, ur, lc, hist>>

\* Time passes.
Tick ==
    /\ pc = "idle"
    /\ clock < MaxTime
    /\ clock' = clock + 1
    /\ UNCHANGED <<state, av, peer_av, pc, effects, call, scheduled, seed, es, ur, lc, hist>>

Next ==
    \/ HandleTimer
    \/ OnNewUnit
    \/ OnNewEvidence
    \/ Propose
    \/ SetRoundExp
    \/ Deliver
    \/ AddPeerUnit
    \/ AddEvidence
    \/ Tick

Spec == Init /\ [][Next]_vars

\* The same system in an era with the second leader sequence.
InitB ==
    /\ seed = 1
    /\ state = EmptyState
    /\ scheduled = -1
    /\ es = NoEra
    /\ ur = NoURef
    /\ lc = NoChain
    /\ hist = NoHist
    /\ pc = "returned"
    /\ clock \in Times
    /\ \E start_time \in {clock} :
          LET a0 == [vidx |-> ALICE, next_round_exp |-> InitRoundExp,
                     next_timer |-> 0, next_proposal |-> None]
              r == new(ALICE, start_time, state)
          IN  /\ av = r.av
              /\ peer_av = [a0 EXCEPT !.vidx = BOB]
              /\ effects = r.effects
              /\ call = Call("new", start_time, Null, a0)

SpecB == InitB /\ [][Next]_vars

\* The era in which BOB leads the round 0.
InitC ==
    /\ seed = 2
    /\ state = EmptyState
    /\ scheduled = -1
    /\ es = NoEra
    /\ ur = NoURef
    /\ lc = NoChain
    /\ hist = NoHist
    /\ pc = "returned"
    /\ clock \in Times
    /\ \E start_time \in {clock} :
          LET a0 == [vidx |-> ALICE, next_round_exp |-> InitRoundExp,
                     next_timer |-> 0, next_proposal |-> None]
              r == new(ALICE, start_time, state)
          IN  /\ av = r.av
              /\ peer_av = [a0 EXCEPT !.vidx = BOB]
              /\ effects = r.effects
              /\ call = Call("new", start_time, Null, a0)

SpecC == InitC /\ [][Next]_vars

\* ------------------------------------------------------------ properties
\* In a state with pc = "returned" the variable state still is the state the
\* handler was called with, call.av the validator before the call, av the
\* validator after it and effects what the call returned.

Returned(op) == pc = "returned" /\ call.op = op

OwnHashes == {h \in Hashes(state) : state.units[h].creator = ALICE}

\* The units the last call emitted.
Emitted == {UnitEffects(effects)[i].unit : i \in 1 .. Len(UnitEffects(effects))}

EffectTypes == {effects[i].type : i \in 1 .. Len(effects)}

OwnLatest == LatestOf(state, ALICE)

\* C1: the validator never emits two different units with the same sequence
\* number, and every unit it builds cites its own latest unit in the state
\* and carries that unit's sequence number plus one (0 for the first).
C1_NeverEquivocate ==
    /\ \A g, h \in OwnHashes :
          state.units[g].seq_number = state.units[h].seq_number => g = h
    /\ \A w \in Emitted :
          /\ \A h \in OwnHashes : state.units[h].seq_number # w.seq_number
          /\ w.panorama[ALICE] = panorama(state)[ALICE]
          /\ w.seq_number = IF OwnLatest = Null THEN 0
                            ELSE state.units[OwnLatest].seq_number + 1
          /\ \A x \in Emitted : x.seq_number = w.seq_number => x = w

\* A unit is emitted on top of an earlier own unit.
C1_Witness ==
    \E w \in Emitted : OwnLatest # Null /\ w.seq_number = 1

\* Own units of the state in the round that a unit with timestamp t and
\* round exponent e lies in.
OwnInRound(t, e) ==
    {h \in OwnHashes :
        /\ round_id(t, e) <= state.units[h].timestamp
        /\ state.units[h].timestamp < round_id(t, e) + round_len(e)}

\* C2: no emitted unit lies in a round (its own, or the round of an earlier
\* own unit) that already contains two own units.
C2_AtMostTwoPerRound ==
    \A w \in Emitted :
        /\ Cardinality(OwnInRound(w.timestamp, w.round_exp)) <= 1
        /\ \A h \in OwnHashes :
              LET u == state.units[h]
              IN  round_id(w.timestamp, u.round_exp) = round_id(u.timestamp, u.round_exp)
                  => Cardinality(OwnInRound(u.timestamp, u.round_exp)) <= 1

\* The second unit of a round is emitted, and a call inside a round that
\* holds two own units returns without a unit.
C2_Witness ==
    /\ pc = "returned"
    /\ call.op \in {"handle_timer", "on_new_unit", "propose"}
    /\ Emitted = {}
    /\ OwnLatest # Null
    /\ Cardinality(OwnInRound(call.time, state.units[OwnLatest].round_exp)) = 2

\* C3: a unit emitted by handle_timer, on_new_unit or propose is not earlier
\* than earliest_unit_time of the state before the call, nor than the latest
\* own unit.
C3_TimestampMonotonic ==
    (pc = "returned" /\ call.op \in {"handle_timer", "on_new_unit", "propose"}) =>
        \A w \in Emitted :
            /\ w.timestamp >= earliest_unit_time(call.av, state)
            /\ OwnLatest # Null => w.timestamp >= state.units[OwnLatest].timestamp

\* A unit is emitted exactly at the earliest time that the two units of the
\* previous round allow.
C3_Witness ==
    \E w \in Emitted :
        /\ OwnLatest # Null
        /\ previous(state, OwnLatest) # Null
        /\ w.timestamp = earliest_unit_time(call.av, state)
        /\ w.timestamp > state.units[OwnLatest].timestamp

\* Own units with a value: the state's and the emitted ones, as
\* <<timestamp, sequence number>>.
OwnProposals ==
    {<<state.units[h].timestamp, state.units[h].seq_number>> :
        h \in {g \in OwnHashes : state.units[g].value # NoValue}}
    \cup {<<w.timestamp, w.seq_number>> : w \in {x \in Emitted : x.value # NoValue}}

\* C4: the validator emits at most one unit with a value per timestamp, so
\* at most one proposal in a round it leads.
C4_OneProposalPerRound ==
    \A p, q \in OwnProposals : p[1] = q[1] => p = q

\* C5: handle_timer called with the validator's own index marked Faulty
\* returns no effects and leaves next_timer and the pending proposal alone.
C5_FaultyTimerEmpty ==
    (Returned("handle_timer") /\ panorama(state)[ALICE] = Faulty) =>
        /\ effects = <<>>
        /\ av.next_timer = call.av.next_timer
        /\ av.next_proposal = call.av.next_proposal

\* handle_timer is called, faulty, at a time for which no timer is scheduled
\* yet and while a proposal is pending.
C5_Witness ==
    /\ Returned("handle_timer")
    /\ panorama(state)[ALICE] = Faulty
    /\ call.av.next_timer <= call.time
    /\ call.av.next_proposal # None

\* C6 as stated: handle_timer called with the validator marked faulty emits
\* no unit and returns the timer schedule, the ScheduleTimer effect.
C6_FaultyReturnsSchedule ==
    (Returned("handle_timer") /\ ALICE \in state.faulty /\ call.av.next_timer <= call.time) =>
        /\ Emitted = {}
        /\ Len(effects) = 1
        /\ effects[1].type = "ScheduleTimer"

\* C6 amended: handle_timer called with the validator marked faulty emits no
\* unit and no timer schedule either.
C6_FaultyNoUnitNoSchedule ==
    (Returned("handle_timer") /\ ALICE \in state.faulty) =>
        /\ "NewVertex" \notin EffectTypes
        /\ "ScheduleTimer" \notin EffectTypes
        /\ "RequestNewBlock" \notin EffectTypes

\* handle_timer is called, faulty, at the witness time of the round, when
\* the state holds units to cite and no timer is scheduled for later.
C6_Witness ==
    /\ Returned("handle_timer")
    /\ ALICE \in state.faulty
    /\ call.av.next_timer <= call.time
    /\ state.units # <<>>
    /\ LET e == call.av.next_round_exp
       IN  call.time = round_id(call.time, e) + (round_len(e) * 2) \div 3

\* C7: once the state holds evidence against the validator, no handler call
\* returns a NewVertex (unit or endorsement) or a RequestNewBlock.
C7_PermanentDeactivation ==
    (pc = "returned" /\ ALICE \in state.faulty) =>
        /\ "NewVertex" \notin EffectTypes
        /\ "RequestNewBlock" \notin EffectTypes

\* C8: on_new_unit called with evidence against the validator in the state
\* returns exactly WeEquivocated with that evidence.
C8_WeEquivocatedOnly ==
    (Returned("on_new_unit") /\ ALICE \in state.faulty) =>
        effects = <<[type |-> "WeEquivocated", perpetrator |-> ALICE]>>

\* on_new_unit is called, with evidence against the validator, for a unit
\* of the peer that cites a unit of the validator.
C8_Witness ==
    /\ Returned("on_new_unit")
    /\ ALICE \in state.faulty
    /\ state.units[call.hash].creator = BOB
    /\ IsCorrect(state.units[call.hash].panorama[ALICE])

\* The timer the scheduling rule yields at time t for validator a.
NextTick(a, t, st) ==
    LET e == round_exp(a, st, t)
        r_len == round_len(e)
        r_id == (t \div r_len) * r_len
        w == (r_len * 2) \div 3
        next_len == round_len(round_exp(a, st, r_id + r_len))
    IN  IF t < r_id + w THEN r_id + w
        ELSE IF leader(r_id + r_len) = a.vidx THEN r_id + r_len
        ELSE r_id + r_len + (next_len * 2) \div 3

\* A validator right after construction with round exponent e: the test's
\* round length 16 is e = 4.
Fresh(v, e) == [vidx |-> v, next_round_exp |-> e, next_timer |-> 0, next_proposal |-> None]

\* C9: the constructor and every non-faulty handle_timer with
\* next_timer <= t set next_timer by the scheduling rule and return exactly
\* one ScheduleTimer, for it; with round length 16 and start 410 the leader
\* of round 416 gets 416 and the other validator 426.
C9_SchedulingRule ==
    /\ (/\ pc = "returned"
        /\ call.op \in {"new", "handle_timer"}
        /\ ALICE \notin state.faulty
        /\ call.av.next_timer <= call.time) =>
           /\ av.next_timer = NextTick(call.av, call.time, state)
           /\ Len(TimerEffects(effects)) = 1
           /\ effects[1] = [type |-> "ScheduleTimer", time |-> av.next_timer]
    /\ schedule_timer(Fresh(ALICE, 4), 410, EmptyState).effects
          = <<[type |-> "ScheduleTimer", time |-> 416]>>
    /\ schedule_timer(Fresh(BOB, 4), 410, EmptyState).effects
          = <<[type |-> "ScheduleTimer", time |-> 426]>>

\* handle_timer schedules the witness tick of the next round, which the
\* peer leads.
C9_Witness ==
    /\ Returned("handle_timer")
    /\ ALICE \notin state.faulty
    /\ call.av.next_timer <= call.time
    /\ LET e == round_exp(call.av, state, call.time)
           next_r_id == round_id(call.time, e) + round_len(e)
       IN  /\ leader(next_r_id) = BOB
           /\ av.next_timer > next_r_id

\* C10: next_timer never decreases; no timer is scheduled while
\* next_timer > t; every scheduled timer is later than the timestamp that
\* triggered it and than every timer scheduled before.
C10_TimersOnlyAdvance ==
    pc = "returned" =>
        /\ av.next_timer >= call.av.next_timer
        /\ call.av.next_timer > call.time => TimerEffects(effects) = <<>>
        /\ \A i \in 1 .. Len(TimerEffects(effects)) :
              /\ TimerEffects(effects)[i].time > call.time
              /\ TimerEffects(effects)[i].time > scheduled

\* A stale handle_timer (its time is before the scheduled timer) returns
\* without scheduling, after an earlier call did schedule.
C10_Witness ==
    /\ Returned("handle_timer")
    /\ ALICE \notin state.faulty
    /\ call.av.next_timer > call.time
    /\ scheduled > call.time
    /\ effects = <<>>

\* C11: a non-faulty handle_timer(t) with earliest_unit_time(state) > t
\* returns no NewVertex and no RequestNewBlock and leaves the pending
\* proposal alone; it returns the ScheduleTimer of the scheduling rule when
\* next_timer <= t and nothing otherwise.
C11_StaleTimerOnlySchedule ==
    (/\ Returned("handle_timer")
     /\ ~is_faulty(call.av, state)
     /\ earliest_unit_time(call.av, state) > call.time) =>
        /\ "NewVertex" \notin EffectTypes
        /\ "RequestNewBlock" \notin EffectTypes
        /\ av.next_proposal = call.av.next_proposal
        /\ effects = IF call.av.next_timer > call.time THEN <<>>
                     ELSE <<EffScheduleTimer(NextTick(call.av, call.time, state))>>

\* A stale handle_timer at the start of a round the validator leads, which
\* would otherwise request a block.
C11_Witness ==
    /\ Returned("handle_timer")
    /\ ~is_faulty(call.av, state)
    /\ earliest_unit_time(call.av, state) > call.time
    /\ LET e == round_exp(call.av, state, call.time)
       IN  /\ call.time = round_id(call.time, e)
           /\ leader(call.time) = ALICE
           /\ call.av.next_proposal = None

\* A stale handle_timer that still schedules the next timer.
C11_WitnessSchedules ==
    /\ Returned("handle_timer")
    /\ ~is_faulty(call.av, state)
    /\ earliest_unit_time(call.av, state) > call.time
    /\ effects # <<>>

\* C12: handle_timer(t) on a freshly constructed validator, with t earlier
\* than the first tick the constructor scheduled, returns no effect.
C12_EarlyTimerIgnored ==
    (/\ Returned("handle_timer")
     /\ \E s \in Times : call.av = new(ALICE, s, state).av
     /\ call.time < call.av.next_timer) =>
        effects = <<>>

\* The last call is a non-faulty, non-stale handle_timer at the start of a
\* round that the validator leads: the call reaches request_new_block.
AtLeaderTick ==
    /\ Returned("handle_timer")
    /\ ~is_faulty(call.av, state)
    /\ earliest_unit_time(call.av, state) <= call.time
    /\ call.time = round_id(call.time, round_exp(call.av, state, call.time))
    /\ leader(call.time) = ALICE

\* The panorama of the state as seen at time t: per validator the latest
\* unit of its swimlane that is not later than t.
SeenAt(t) == cutoff(citable_panorama(state), state, t)

\* The parent a block proposed at time t gets.
ParentAt(t) == fork_choice(state, SeenAt(t))

ParentTerminal(t) == ParentAt(t) # Null /\ is_terminal_block(state, ParentAt(t))

\* The RequestNewBlock effects of the last call.
BlockRequests == SelectSeq(effects, LAMBDA e : e.type = "RequestNewBlock")

\* C13: at the start of a round it leads, with no proposal pending and a
\* parent that is not terminal, handle_timer(t) returns one RequestNewBlock
\* with timestamp t, stores (t, citable panorama cut off at t) as pending
\* proposal and emits no unit.
C13_ProposalRequest ==
    (AtLeaderTick /\ call.av.next_proposal = None /\ ~ParentTerminal(call.time)) =>
        /\ Len(BlockRequests) = 1
        /\ BlockRequests[1].time = call.time
        /\ effects[Len(effects)].type = "RequestNewBlock"
        /\ av.next_proposal = Some([time |-> call.time, panorama |-> SeenAt(call.time)])
        /\ \A v \in Validators :
              LET o == av.next_proposal[1].panorama[v]
              IN  IsCorrect(o) => state.units[o].timestamp <= call.time
        /\ "NewVertex" \notin EffectTypes

\* A block is requested at a time at which the state already holds a
\* later unit of the peer, which the stored panorama leaves out.
C13_Witness ==
    /\ AtLeaderTick
    /\ call.av.next_proposal = None
    /\ ~ParentTerminal(call.time)
    /\ IsCorrect(panorama(state)[BOB])
    /\ state.units[panorama(state)[BOB]].timestamp > call.time

\* C14: the height in RequestNewBlock is the parent's height + 1 if the
\* fork choice of the cut-off panorama yields a parent, and 0 otherwise.
C14_RequestHeight ==
    Returned("handle_timer") =>
        \A i \in 1 .. Len(BlockRequests) :
            BlockRequests[i].height =
                IF ParentAt(call.time) = Null THEN 0
                ELSE height(state, ParentAt(call.time)) + 1

\* C15: while a proposal is pending, handle_timer at the start of a round
\* the validator leads returns no RequestNewBlock and no unit, and the
\* pending proposal stays as it is.
C15_PendingBlocksRequest ==
    (AtLeaderTick /\ call.av.next_proposal # None) =>
        /\ BlockRequests = <<>>
        /\ "NewVertex" \notin EffectTypes
        /\ av.next_proposal = call.av.next_proposal
        /\ request_new_block(call.av, state, call.time) = [av |-> call.av, effects |-> <<>>]

\* The validator leads a round while the proposal of an earlier round is
\* still pending.
C15_Witness ==
    /\ AtLeaderTick
    /\ call.av.next_proposal # None
    /\ call.av.next_proposal[1].time < call.time

\* C16: if the parent is a terminal block, handle_timer at the start of a
\* round the validator leads returns a unit with no value and timestamp t,
\* no RequestNewBlock, and no proposal is pending afterwards.
C16_TerminalParent ==
    (AtLeaderTick /\ call.av.next_proposal = None /\ ParentTerminal(call.time)) =>
        /\ Len(UnitEffects(effects)) = 1
        /\ effects[Len(effects)].type = "NewVertex"
        /\ \A w \in Emitted : w.value = NoValue /\ w.timestamp = call.time /\ w.creator = ALICE
        /\ BlockRequests = <<>>
        /\ av.next_proposal = None

\* The validator leads a round whose parent is terminal.
C16_Witness ==
    /\ AtLeaderTick
    /\ call.av.next_proposal = None
    /\ ParentTerminal(call.time)
    /\ Emitted # {}

\* C17: propose with no proposal pending, or with a timestamp other than the
\* pending proposal's, returns no effect.
C17_UnexpectedValue ==
    (/\ Returned("propose")
     /\ \/ call.av.next_proposal = None
        \/ call.av.next_proposal[1].time # call.time) =>
        effects = <<>>

\* A value arrives for another timestamp than the pending proposal's, at a
\* time at which the validator could cast a unit.
C17_Witness ==
    /\ Returned("propose")
    /\ ~is_faulty(call.av, state)
    /\ earliest_unit_time(call.av, state) <= call.time
    /\ call.av.next_proposal # None
    /\ call.av.next_proposal[1].time # call.time

\* The own unit with sequence number n.
OwnUnitAt(n) == {state.units[h] : h \in {g \in OwnHashes : state.units[g].seq_number = n}}

\* A unit at time t would be earlier than the validator's latest unit, or
\* the third unit of the round of the unit before the latest.
SlotUnusable(t) ==
    /\ OwnLatest # Null
    /\ LET u == state.units[OwnLatest]
       IN  \/ u.timestamp > t
           \/ \E u2 \in OwnUnitAt(u.seq_number - 1) :
                 t < round_id(u2.timestamp, u2.round_exp) + round_len(u2.round_exp)

\* C18: propose for a timestamp before earliest_unit_time(state), a slot
\* that the validator's own units made unusable, returns no effect.
C18_OutdatedValue ==
    Returned("propose") =>
        /\ ~is_faulty(call.av, state) =>
              (SlotUnusable(call.time) <=> earliest_unit_time(call.av, state) > call.time)
        /\ SlotUnusable(call.time) => effects = <<>>

\* A value arrives for an unusable slot while a proposal is pending; the
\* pending proposal is not consumed.
C18_Witness ==
    /\ Returned("propose")
    /\ ~is_faulty(call.av, state)
    /\ SlotUnusable(call.time)
    /\ call.av.next_proposal # None
    /\ av.next_proposal = call.av.next_proposal

\* C19: propose for the pending proposal (t, p), non-faulty and not
\* outdated, returns exactly one effect, a unit with a value, timestamp t
\* and panorama p; no proposal is pending afterwards and a second propose
\* for the same timestamp returns no effect.
C19_SuccessfulPropose ==
    (/\ Returned("propose")
     /\ ~is_faulty(call.av, state)
     /\ earliest_unit_time(call.av, state) <= call.time
     /\ call.av.next_proposal # None
     /\ call.av.next_proposal[1].time = call.time) =>
        /\ Len(effects) = 1
        /\ effects[1].type = "NewVertex"
        /\ effects[1].vertex = "Unit"
        /\ effects[1].unit.value \in Values
        /\ effects[1].unit.creator = ALICE
        /\ effects[1].unit.timestamp = call.time
        /\ effects[1].unit.panorama = call.av.next_proposal[1].panorama
        /\ av.next_proposal = None
        /\ \A v \in Values :
              /\ propose(av, v, call.time, state).effects = <<>>
              /\ propose(av, v, call.time, add_unit(state, effects[1].unit)).effects = <<>>

\* A value arrives for the pending proposal after a unit of the peer was
\* added to the state, which the stored panorama does not cite.
C19_Witness ==
    /\ Returned("propose")
    /\ Emitted # {}
    /\ call.av.next_proposal[1].panorama # panorama(state)

\* C20: after a call that emits a unit no proposal is pending, and a value
\* that arrives afterwards, for any timestamp, yields no unit.
C20_UnitDiscardsProposal ==
    (pc = "returned" /\ Emitted # {}) =>
        /\ av.next_proposal = None
        /\ \A v \in Values, t \in Times :
              /\ propose(av, v, t, state).effects = <<>>
              /\ propose(av, v, t, AddUnits(state, UnitEffects(effects))).effects = <<>>

\* A witness or confirmation unit is emitted while a proposal is pending.
C20_Witness ==
    /\ pc = "returned"
    /\ call.op \in {"handle_timer", "on_new_unit"}
    /\ Emitted # {}
    /\ call.av.next_proposal # None

\* The last call is a non-faulty, non-stale handle_timer at the witness
\* time of its round.
AtWitnessTick ==
    /\ Returned("handle_timer")
    /\ ~is_faulty(call.av, state)
    /\ earliest_unit_time(call.av, state) <= call.time
    /\ LET e == round_exp(call.av, state, call.time)
       IN  call.time = round_id(call.time, e) + (round_len(e) * 2) \div 3
    /\ ~AtLeaderTick

\* C21: at the witness time of the round handle_timer(t) returns exactly
\* one unit, with no value, timestamp t and the citable panorama cut off at
\* t, if that panorama has a correct entry, and no unit otherwise; it
\* requests no block.
C21_WitnessUnit ==
    AtWitnessTick =>
        /\ BlockRequests = <<>>
        /\ IF \E v \in Validators : IsCorrect(SeenAt(call.time)[v])
           THEN /\ Len(UnitEffects(effects)) = 1
                /\ effects[Len(effects)].type = "NewVertex"
                /\ \A w \in Emitted :
                      /\ w.value = NoValue
                      /\ w.creator = ALICE
                      /\ w.timestamp = call.time
                      /\ w.panorama = SeenAt(call.time)
                      /\ \A v \in Validators :
                            IsCorrect(w.panorama[v]) =>
                                state.units[w.panorama[v]].timestamp <= call.time
           ELSE "NewVertex" \notin EffectTypes

\* A witness unit is emitted that cites an earlier unit of the peer and
\* leaves out a later one.
C21_Witness ==
    /\ AtWitnessTick
    /\ Emitted # {}
    /\ SeenAt(call.time) # panorama(state)

\* At the witness time the state holds only a later unit: no witness unit.
C21_WitnessNoCorrect ==
    /\ AtWitnessTick
    /\ state.units # <<>>
    /\ Emitted = {}

\* The unit that the last on_new_unit call was made for.
Target == state.units[call.hash]

\* C22: on_new_unit emits a unit only if now is not before
\* earliest_unit_time, the target is not later than now, is not the
\* validator's own, is a proposal with a value at the start of a round its
\* creator leads, from a creator that is not faulty, and the validator is
\* not faulty; the unit has no value, timestamp now and the confirmation
\* panorama, which cites the target and the validator's latest unit.
C22_ConfirmationGate ==
    (Returned("on_new_unit") /\ Emitted # {}) =>
        /\ call.time >= earliest_unit_time(call.av, state)
        /\ Target.timestamp <= call.time
        /\ Target.creator # ALICE
        /\ ALICE \notin state.faulty
        /\ Target.value # NoValue
        /\ Target.creator \notin state.faulty
        /\ Target.timestamp = round_id(Target.timestamp, Target.round_exp)
        /\ leader(Target.timestamp) = Target.creator
        /\ Len(UnitEffects(effects)) = 1
        /\ \A w \in Emitted :
              /\ w.value = NoValue
              /\ w.creator = ALICE
              /\ w.timestamp = call.time
              /\ w.panorama = confirmation_panorama(state, ALICE, call.hash)
              /\ sees_correct(w.panorama, state, call.hash)
              /\ w.panorama[ALICE] = OwnLatest

\* The validator confirms a proposal of the peer on top of a unit of its
\* own.
C22_Witness ==
    /\ Returned("on_new_unit")
    /\ Emitted # {}
    /\ OwnLatest # Null

\* The units a call of on_new_unit for the same unit returns once the
\* emitted units are added to the state.
UnitsOfNextCall(now) ==
    UnitEffects(on_new_unit(av, call.hash, now, AddUnits(state, UnitEffects(effects))).effects)

\* C23: on_new_unit for a proposal that the validator's latest unit sees
\* emits no unit; after a confirmation is emitted and added to the state,
\* no on_new_unit for the same proposal emits another.
C23_ConfirmOnce ==
    Returned("on_new_unit") =>
        /\ (OwnLatest # Null /\ sees_correct(state.units[OwnLatest].panorama, state, call.hash))
              => Emitted = {}
        /\ Emitted # {} => \A now \in call.time .. MaxTime : UnitsOfNextCall(now) = <<>>

\* on_new_unit is called again for a proposal of the peer that the
\* validator confirmed, at a time at which it would confirm it otherwise.
C23_Witness ==
    /\ Returned("on_new_unit")
    /\ ALICE \notin state.faulty
    /\ OwnLatest # Null
    /\ sees_correct(state.units[OwnLatest].panorama, state, call.hash)
    /\ Target.creator = BOB
    /\ is_correct_proposal(state, Target)
    /\ call.time >= earliest_unit_time(call.av, state)
    /\ Target.timestamp = round_id(call.time, round_exp(call.av, state, call.time))

\* The round exponent of the validator at the time of the last call.
OwnExpAtCall == round_exp(call.av, state, call.time)

\* C35: on_new_unit emits a unit only if the target's timestamp is the id
\* of the round of now under the validator's own round exponent; once now
\* is in a later round than the one that started at the target's
\* timestamp, no unit is emitted.
C35_ConfirmInOwnRound ==
    Returned("on_new_unit") =>
        /\ Emitted # {} => Target.timestamp = round_id(call.time, OwnExpAtCall)
        /\ call.time >= Target.timestamp + round_len(OwnExpAtCall) => Emitted = {}

\* A correct proposal of the peer for the round 0 reaches the validator in
\* a later round, with nothing else against a confirmation.
C35_Witness ==
    /\ Returned("on_new_unit")
    /\ ALICE \notin state.faulty
    /\ Target.creator = BOB
    /\ is_correct_proposal(state, Target)
    /\ call.time >= earliest_unit_time(call.av, state)
    /\ ~(OwnLatest # Null /\ sees_correct(state.units[OwnLatest].panorama, state, call.hash))
    /\ has_correct(confirmation_panorama(state, ALICE, call.hash))
    /\ call.time >= Target.timestamp + round_len(OwnExpAtCall)
    /\ Emitted = {}

\* The same proposal is confirmed within its round.
C35_WitnessConfirmed ==
    /\ Returned("on_new_unit")
    /\ Target.creator = BOB
    /\ Target.timestamp = 0
    /\ Emitted # {}

\* The endorsement vertices of the last call.
EndorsementEffects ==
    SelectSeq(effects, LAMBDA e : e.type = "NewVertex" /\ e.vertex = "Endorsements")

\* Unit h cites a unit of validator v that the unit before h in its
\* creator's swimlane did not cite.
NewlyCites(h, v) ==
    LET u == state.units[h]
        before == u.panorama[u.creator]
    IN  /\ u.panorama[v] \in Hashes(state)
        /\ before \in Hashes(state) => state.units[before].panorama[v] # u.panorama[v]

\* C24: on_new_unit of a validator that is not faulty returns an
\* endorsement of the unit, one vertex with the unit's hash signed by the
\* validator, if and only if the unit's creator is not marked faulty and
\* the unit newly cites a validator that the state marks faulty.
C24_EndorseOnNewUnit ==
    (Returned("on_new_unit") /\ ALICE \notin state.faulty) =>
        EndorsementEffects =
            IF /\ Target.creator \notin state.faulty
               /\ \E v \in state.faulty : NewlyCites(call.hash, v)
            THEN <<[type |-> "NewVertex", vertex |-> "Endorsements",
                    hash |-> call.hash, endorser |-> ALICE]>>
            ELSE <<>>

\* on_new_unit endorses a unit that newly cites the convicted peer.
C24_Witness ==
    /\ Returned("on_new_unit")
    /\ ALICE \notin state.faulty
    /\ EndorsementEffects # <<>>

\* on_new_unit for a unit of the convicted peer that cites an earlier unit
\* of the peer: no endorsement.
C24_WitnessFaultyCreator ==
    /\ Returned("on_new_unit")
    /\ ALICE \notin state.faulty
    /\ Target.creator \in state.faulty
    /\ NewlyCites(call.hash, Target.creator)
    /\ EndorsementEffects = <<>>

\* The latest units of the validators that the state does not mark faulty.
LatestCorrect == {LatestOf(state, v) : v \in Validators \ state.faulty} \ {Null}

\* C25: on_new_evidence for perpetrator V returns exactly one endorsement,
\* signed by the validator, for each latest correct unit that newly cites
\* V, nothing else, and leaves the validator as it is.
C25_EndorseOnNewEvidence ==
    Returned("on_new_evidence") =>
        /\ av = call.av
        /\ effects = EndorsementEffects
        /\ \A i \in 1 .. Len(effects) : effects[i].endorser = ALICE
        /\ {effects[i].hash : i \in 1 .. Len(effects)}
              = {h \in LatestCorrect : NewlyCites(h, call.hash)}
        /\ \A i, j \in 1 .. Len(effects) : effects[i].hash = effects[j].hash => i = j

\* Evidence against the peer arrives while the validator's latest unit
\* newly cites a unit of the peer.
C25_Witness ==
    /\ Returned("on_new_evidence")
    /\ call.hash = BOB
    /\ effects # <<>>

\* Evidence arrives and a latest correct unit does not cite the
\* perpetrator: it is not endorsed.
C25_WitnessNone ==
    /\ Returned("on_new_evidence")
    /\ LatestCorrect # {}
    /\ effects = <<>>

\* Unit w lies in the round of unit u.
InRoundOf(w, u) ==
    /\ round_id(u.timestamp, u.round_exp) <= w.timestamp
    /\ w.timestamp < round_id(u.timestamp, u.round_exp) + round_len(u.round_exp)

\* The validator's units: those in the state and those just emitted.
OwnUnits ==
    {[timestamp |-> state.units[h].timestamp, round_exp |-> state.units[h].round_exp] :
        h \in OwnHashes}
    \cup {[timestamp |-> w.timestamp, round_exp |-> w.round_exp] : w \in Emitted}

\* C26: a unit emitted in a round that the validator signed into carries
\* that round's exponent, whatever set_round_exp set since: two own units
\* of which one lies in the round of the other have the same round
\* exponent; without an own unit the exponent is next_round_exp.
C26_RoundExpFrozen ==
    /\ \A u, w \in OwnUnits : InRoundOf(w, u) => w.round_exp = u.round_exp
    /\ (pc = "returned" /\ OwnLatest = Null) =>
          \A w \in Emitted : w.round_exp = call.av.next_round_exp
    /\ (pc = "returned" /\ OwnLatest # Null /\ ALICE \notin state.faulty) =>
          \A w \in Emitted :
              LET u == state.units[OwnLatest]
              IN  w.round_exp = IF InRoundOf(w, u) THEN u.round_exp
                                ELSE IF InRoundOf(u, [timestamp |-> w.timestamp,
                                                      round_exp |-> call.av.next_round_exp])
                                     THEN u.round_exp
                                     ELSE call.av.next_round_exp

\* After set_round_exp the validator emits a unit in the round of its
\* latest unit, with that unit's exponent and not the new one.
C26_Witness ==
    /\ pc = "returned"
    /\ OwnLatest # Null
    /\ \E w \in Emitted :
          /\ InRoundOf(w, state.units[OwnLatest])
          /\ w.round_exp # call.av.next_round_exp

\* The exponent grows: the validator emits a unit outside the round of its
\* latest unit that still carries the old exponent, because the round of
\* the new exponent would contain the latest unit.
C26_WitnessGrow ==
    /\ pc = "returned"
    /\ OwnLatest # Null
    /\ \E w \in Emitted :
          /\ ~InRoundOf(w, state.units[OwnLatest])
          /\ w.round_exp # call.av.next_round_exp

\* ------------------------------------------------------------ the test run
\* tests::active_validator: ALICE and BOB each run an active validator on
\* one state, with round exponent 4 (round length 16), from time 410 on.
\* The run takes the start time from the slot before the first leader tick,
\* and the times of the early timer and of the on_new_unit calls from the
\* slots the test's 415, 417 and 419 lie in.

\* The round exponent of State::new_test.
TestRoundExp == 4
\* The test's start time.
TestStart == 410

TestStarts == TestStart .. 415
TestNows == 417 .. 425
\* The consensus values of the test run: the test's 0xC0FFEE and another.
TestValues == {"C0FFEE", "DECAF"}

\* ActiveValidator::new with the parameters of State::new_test.
new_test(vidx, start_time, st) == schedule_timer(Fresh(vidx, TestRoundExp), start_time, st)

\* A test step: the call returned r for ALICE's validator (or BOB's), and
\* the test adds the returned units to the state.
TestStep(step, c, r, alice) ==
    /\ pc' = step
    /\ call' = c
    /\ effects' = r.effects
    /\ av' = IF alice THEN r.av ELSE av
    /\ peer_av' = IF alice THEN peer_av ELSE r.av
    /\ state' = AddUnits(state, UnitEffects(r.effects))
    /\ clock' = c.time
    /\ scheduled' = MaxTimer(TimerEffects(r.effects), scheduled)
    /\ UNCHANGED <<seed, es, ur, lc, hist>>

\* The hash of the proposal in the test's state: its first unit.
prop_hash == 1

InitT ==
    /\ seed \in {0, 1}
    /\ state = EmptyState
    /\ pc = "t_new"
    /\ \E start_time \in TestStarts :
          /\ clock = start_time
          /\ av = new_test(ALICE, start_time, state).av
          /\ peer_av = new_test(BOB, start_time, state).av
          /\ effects = new_test(ALICE, start_time, state).effects
                       \o new_test(BOB, start_time, state).effects
          /\ call = Call("new", start_time, Null, Fresh(BOB, TestRoundExp))
    /\ scheduled = MaxTimer(effects, -1)
    /\ es = NoEra
    /\ ur = NoURef
    /\ lc = NoChain
    /\ hist = NoHist

\* The test's calls of handle_timer, each from the step before it:
\* alice_av.handle_timer(415), too early (any time up to 415);
\* alice_av.handle_timer(416); bob_av.handle_timer(426) and
\* alice_av.handle_timer(426), each followed by state.add_unit(witness).
TestTimerCalls ==
    {[from |-> "t_new", to |-> "t_early", alice |-> TRUE, times |-> TestStarts],
     [from |-> "t_early", to |-> "t_leader", alice |-> TRUE, times |-> {416}],
     [from |-> "t_confirm", to |-> "t_peer_witness", alice |-> FALSE, times |-> {426}],
     [from |-> "t_peer_witness", to |-> "t_witness", alice |-> TRUE, times |-> {426}]}

TestHandleTimer ==
    \E c \in TestTimerCalls : \E t \in c.times :
        /\ pc = c.from
        /\ t >= clock
        /\ LET a == IF c.alice THEN av ELSE peer_av
           IN  TestStep(c.to, Call("handle_timer", t, Null, a),
                        handle_timer(a, t, state), c.alice)

\* alice_av.propose(0xC0FFEE, bctx), state.add_unit(proposal_wunit)
TestPropose ==
    /\ pc = "t_leader"
    /\ \E value \in TestValues :
          TestStep("t_propose", Call("propose", 416, Null, av),
                   propose(av, value, 416, state), TRUE)

\* alice_av.on_new_unit(&prop_hash, 417)
TestOwnProposal ==
    /\ pc = "t_propose"
    /\ \E now \in TestNows :
          TestStep("t_own", Call("on_new_unit", now, prop_hash, av),
                   on_new_unit(av, prop_hash, now, state), TRUE)

\* bob_av.on_new_unit(&prop_hash, 419), state.add_unit(confirmation)
TestConfirm ==
    /\ pc = "t_own"
    /\ \E now \in TestNows :
          TestStep("t_confirm", Call("on_new_unit", now, prop_hash, peer_av),
                   on_new_unit(peer_av, prop_hash, now, state), FALSE)

NextT ==
    \/ TestHandleTimer
    \/ TestPropose
    \/ TestOwnProposal
    \/ TestConfirm

SpecT == InitT /\ [][NextT]_vars

\* The units of the test's state, by hash.
TestUnit(h) == state.units[h]

\* C27: the effects of the test's calls, in the test's order: the
\* constructors schedule 416 for ALICE and 426 for BOB; the early timer has
\* no effect; handle_timer(ALICE, 416) schedules 426 and requests a block
\* for 416; propose returns one proposal unit; ALICE's on_new_unit for it
\* returns nothing; BOB's returns one confirmation unit; handle_timer(BOB,
\* 426) schedules 432 and returns a witness unit; handle_timer(ALICE, 426)
\* schedules 442 and returns a witness unit.
C27_HappyPathEffects ==
    /\ pc = "t_new" =>
          effects = <<EffScheduleTimer(416), EffScheduleTimer(426)>>
    /\ pc = "t_early" => effects = <<>>
    /\ pc = "t_leader" =>
          /\ Len(effects) = 2
          /\ effects[1] = EffScheduleTimer(426)
          /\ effects[2].type = "RequestNewBlock"
          /\ effects[2].time = 416
    /\ pc = "t_propose" =>
          /\ Len(effects) = 1
          /\ effects[1].type = "NewVertex"
          /\ effects[1].vertex = "Unit"
          /\ effects[1].unit.creator = ALICE
          /\ effects[1].unit.value \in TestValues
          /\ effects[1].unit.timestamp = 416
          /\ effects[1].unit.seq_number = 0
    /\ pc = "t_own" => effects = <<>>
    /\ pc = "t_confirm" =>
          /\ Len(effects) = 1
          /\ effects[1].type = "NewVertex"
          /\ effects[1].vertex = "Unit"
          /\ effects[1].unit.creator = BOB
          /\ effects[1].unit.value = NoValue
          /\ effects[1].unit.timestamp = call.time
          /\ effects[1].unit.panorama[ALICE] = prop_hash
    /\ pc = "t_peer_witness" =>
          /\ Len(effects) = 2
          /\ effects[1] = EffScheduleTimer(432)
          /\ effects[2].type = "NewVertex"
          /\ effects[2].vertex = "Unit"
          /\ effects[2].unit.creator = BOB
          /\ effects[2].unit.value = NoValue
          /\ effects[2].unit.timestamp = 426
    /\ pc = "t_witness" =>
          /\ Len(effects) = 2
          /\ effects[1] = EffScheduleTimer(442)
          /\ effects[2].type = "NewVertex"
          /\ effects[2].vertex = "Unit"
          /\ effects[2].unit.creator = ALICE
          /\ effects[2].unit.value = NoValue
          /\ effects[2].unit.timestamp = 426
          /\ effects[2].unit.panorama = [v \in Validators |-> IF v = ALICE THEN prop_hash ELSE 3]

\* The test's run: BOB confirmed at 419 and the state holds the proposal,
\* the confirmation and the two witness units.
C27_Witness ==
    /\ pc = "t_witness"
    /\ Len(state.units) = 4
    /\ TestUnit(2).timestamp = 419
    /\ TestUnit(2).creator = BOB
    /\ TestUnit(4).creator = ALICE

\* C29: no handler changes the protocol state; the state changes only when
\* the host adds the returned units, or a unit of the peer or evidence
\* while no handler runs.
C29_StateReadOnly ==
    [][/\ pc' = "returned" => state' = state
       /\ state' # state =>
             \/ /\ pc = "returned"
                /\ pc' = "idle"
                /\ state' = AddUnits(state, UnitEffects(effects))
             \/ /\ pc = "idle"
                /\ pc' = "idle"
                /\ av' = av
                /\ Len(state'.units) > Len(state.units) =>
                      state'.units[Len(state'.units)].creator # ALICE]_vars

\* A handler returned a unit and the state does not hold it.
C29_Witness ==
    /\ pc = "returned"
    /\ call.op \in {"handle_timer", "on_new_unit", "propose"}
    /\ Emitted # {}
    /\ \A w \in Emitted : \A h \in OwnHashes : state.units[h].seq_number # w.seq_number

\* ------------------------------------------------------ the era supervisor
\* era_supervisor/tests.rs: an observer node's era supervisor receives the
\* blocks that BOB proposes, through node 1.  es is
\*   known     the validators against whom it holds evidence
\*   cand      the candidate block it is collecting for, if any:
\*             [block, accusations, missing, validated, proposed]
\*   height    the number of blocks finalized in the era
\*   accused   the validators accused in the finalized blocks
\*   received  the number of blocks received
\*   event     the last event handled
\*   effects   the effects the last handle_event returned
\*   log       what the reactor saw, in the order the test runs the effects:
\*             from the last effect of the vector to the first

\* Largest number of blocks the node receives.
MaxProposals == 3

\* NodeId(1), the sender of every message of the test.
Node1 == 1

RECURSIVE Reverse(_)
Reverse(s) == IF s = <<>> THEN <<>> ELSE Append(Reverse(Tail(s)), Head(s))

\* The accusations of a candidate block, as the block lists them.
RECURSIVE AccusationSeq(_)
AccusationSeq(acc) ==
    IF acc = {} THEN <<>>
    ELSE LET v == CHOOSE x \in acc : \A y \in acc : x <= y
         IN  <<v>> \o AccusationSeq(acc \ {v})

EraValidateBlock(b, sender) == [type |-> "ValidateBlock", block |-> b, sender |-> sender]
EraRequestEvidence(v, dest) == [type |-> "SendMessage", dest |-> dest, evidence |-> v]
EraBroadcast(v) == [type |-> "Broadcast", evidence |-> v]
EraProposed(b) == [type |-> "Proposed", block |-> b]
\* fb is the FinalizedBlock of block b: [era_end, height, proposer], with
\* era_end None or Some([equivocators, rewards]).
EraFinalized(b, fb) == [type |-> "Finalized", block |-> b, fb |-> fb]
EraExecuteBlock(b, fb) == [type |-> "ExecuteBlock", block |-> b, fb |-> fb]

\* handle_event returned effs for event ev.
EraReturn(e, ev, effs) ==
    [e EXCEPT !.event = ev, !.effects = effs, !.log = @ \o Reverse(effs)]

\* The candidate block is valid and no evidence is missing: it is passed
\* to the protocol and announced.
EraResolve(c) ==
    IF c.validated /\ c.missing = {} /\ ~c.proposed
    THEN [cand |-> [c EXCEPT !.proposed = TRUE], effects |-> <<EraProposed(c.block)>>]
    ELSE [cand |-> c, effects |-> <<>>]

\* era_on_block that announces the block on receipt, before validation
\* and evidence.
era_on_block_Eager(e, acc, sender) ==
    LET b == e.received
        c == [block |-> b, accusations |-> acc, missing |-> acc \ e.known,
              validated |-> FALSE, proposed |-> TRUE]
        reqs == AccusationSeq(acc)
    IN  EraReturn([e EXCEPT !.cand = Some(c), !.received = @ + 1],
                  "BlockByOtherValidator",
                  <<EraProposed(b)>>
                      \o [i \in 1 .. Len(reqs) |-> EraRequestEvidence(reqs[i], sender)]
                      \o <<EraValidateBlock(b, sender)>>)

\* handle_event(BlockByOtherValidator {value, timestamp, proposer} from
\* sender): one evidence request per accusation, to the sender, and the
\* request to validate the block.
era_on_block(e, acc, sender) ==
    LET b == e.received
        c == [block |-> b, accusations |-> acc, missing |-> acc \ e.known,
              validated |-> FALSE, proposed |-> FALSE]
        reqs == AccusationSeq(acc)
    IN  EraReturn([e EXCEPT !.cand = Some(c), !.received = @ + 1],
                  "BlockByOtherValidator",
                  [i \in 1 .. Len(reqs) |-> EraRequestEvidence(reqs[i], sender)]
                      \o <<EraValidateBlock(b, sender)>>)

\* handle_event(Evidence(pk)): the evidence is gossiped; a candidate block
\* that waited for it may be complete.
era_on_evidence(e, pk) ==
    LET c == [e.cand[1] EXCEPT !.missing = @ \ {pk}]
        r == EraResolve(c)
    IN  EraReturn([e EXCEPT !.known = @ \cup {pk}, !.cand = Some(r.cand)],
                  "Evidence", <<EraBroadcast(pk)>> \o r.effects)

\* handle_event of the block validator's reply.
era_on_validated(e, valid) ==
    IF ~valid THEN EraReturn([e EXCEPT !.cand = None], "BlockValidated", <<>>)
    ELSE LET r == EraResolve([e.cand[1] EXCEPT !.validated = TRUE])
         IN  EraReturn([e EXCEPT !.cand = Some(r.cand)], "BlockValidated", r.effects)

\* The era's last block reports the validators accused in the era's
\* blocks; the rewards are the default, none.
EraEnd(equivocators) == Some([equivocators |-> equivocators, rewards |-> <<>>])

\* era_on_finalize whose last block reports its own accusations only.
era_on_finalize_OwnOnly(e) ==
    LET c == e.cand[1]
        fb == [era_end |-> IF e.height + 1 >= EndHeight
                           THEN EraEnd(c.accusations) ELSE None,
               height |-> e.height, proposer |-> BOB]
    IN  EraReturn([e EXCEPT !.cand = None, !.height = @ + 1,
                            !.accused = @ \cup c.accusations],
                  "FinalizeBlock",
                  <<EraFinalized(c.block, fb), EraExecuteBlock(c.block, fb)>>)

\* handle_event of the message that lets the protocol finalize the block:
\* the finalization is announced and the execution requested, both with
\* the same FinalizedBlock; the test sees the execution request first.
era_on_finalize(e) ==
    LET c == e.cand[1]
        fb == [era_end |-> IF e.height + 1 >= EndHeight
                           THEN EraEnd(e.accused \cup c.accusations) ELSE None,
               height |-> e.height, proposer |-> BOB]
    IN  EraReturn([e EXCEPT !.cand = None, !.height = @ + 1,
                            !.accused = @ \cup c.accusations],
                  "FinalizeBlock",
                  <<EraFinalized(c.block, fb), EraExecuteBlock(c.block, fb)>>)

\* The variables of the consensus protocol, which the era supervisor test
\* leaves alone.
hw_vars == <<state, av, peer_av, pc, effects, call, scheduled, clock, seed>>

InitE ==
    /\ seed = 0
    /\ state = EmptyState
    /\ scheduled = -1
    /\ pc = "idle"
    /\ clock = 0
    /\ av = Fresh(ALICE, InitRoundExp)
    /\ peer_av = Fresh(BOB, InitRoundExp)
    /\ effects = <<>>
    /\ call = Call("none", 0, Null, av)
    /\ es = NoEra
    /\ ur = NoURef
    /\ lc = NoChain
    /\ hist = NoHist

\* Node 1 sends a block of BOB that accuses validators against whom the
\* node holds no evidence yet.
EraBlock ==
    /\ es.cand = None
    /\ es.received < MaxProposals
    /\ es.height < EndHeight
    /\ \E acc \in SUBSET (Validators \ es.known) : es' = era_on_block(es, acc, Node1)
    /\ UNCHANGED <<hw_vars, ur, lc, hist>>

\* Node 1 replies with evidence that was requested.
EraEvidence ==
    /\ es.cand # None
    /\ \E pk \in es.cand[1].missing : es' = era_on_evidence(es, pk)
    /\ UNCHANGED <<hw_vars, ur, lc, hist>>

\* The block validator replies.
EraValidated ==
    /\ es.cand # None
    /\ ~es.cand[1].validated
    /\ \E valid \in BOOLEAN : es' = era_on_validated(es, valid)
    /\ UNCHANGED <<hw_vars, ur, lc, hist>>

\* Node 1 sends the message that finalizes the proposed block.
EraFinalize ==
    /\ es.cand # None
    /\ es.cand[1].proposed
    /\ es' = era_on_finalize(es)
    /\ UNCHANGED <<hw_vars, ur, lc, hist>>

NextE ==
    \/ EraBlock
    \/ EraEvidence
    \/ EraValidated
    \/ EraFinalize

SpecE == InitE /\ [][NextE]_vars

\* The positions of the reactor's log with an entry of the given type for
\* block b (or evidence against v).
LogBlock(type, b) == {i \in 1 .. Len(es.log) : es.log[i].type = type /\ es.log[i].block = b}
LogEvidence(type, v) ==
    {i \in 1 .. Len(es.log) : es.log[i].type = type /\ es.log[i].evidence = v}

EraEffects(type) == SelectSeq(es.effects, LAMBDA x : x.type = type)

\* C30: on receipt of a block the era supervisor returns one validation
\* request and one evidence request, to the sender, per accusation; on
\* receipt of evidence it gossips it; Proposed is announced only after
\* the block's validation request, by the handler that finds the block
\* validated and the evidence for every accusation arrived and gossiped;
\* Finalized and ExecuteBlock
\* come together, for the same block, and only after its Proposed.
C30_EraOrdering ==
    /\ es.event = "BlockByOtherValidator" =>
          /\ Len(EraEffects("ValidateBlock")) = 1
          /\ Len(EraEffects("SendMessage")) = Cardinality(es.cand[1].accusations)
          /\ \A v \in es.cand[1].accusations :
                EraRequestEvidence(v, Node1) \in
                    {es.effects[i] : i \in 1 .. Len(es.effects)}
          /\ Len(es.effects) = 1 + Cardinality(es.cand[1].accusations)
    /\ es.event = "Evidence" => Len(EraEffects("Broadcast")) = 1
    /\ \A i \in 1 .. Len(es.log) :
          es.log[i].type = "Proposed" =>
              \E j \in LogBlock("ValidateBlock", es.log[i].block) : j < i
    /\ EraEffects("Proposed") # <<>> =>
          /\ es.event \in {"BlockValidated", "Evidence"}
          /\ es.cand # None
          /\ EraEffects("Proposed") = <<EraProposed(es.cand[1].block)>>
          /\ es.cand[1].validated
          /\ es.cand[1].missing = {}
          /\ \A v \in es.cand[1].accusations :
                v \in es.known /\ LogEvidence("Broadcast", v) # {}
    /\ \A i \in 1 .. Len(es.log) :
          es.log[i].type \in {"Finalized", "ExecuteBlock"} =>
              /\ \E j \in LogBlock("Proposed", es.log[i].block) : j < i
              /\ Cardinality(LogBlock("Finalized", es.log[i].block)) = 1
              /\ Cardinality(LogBlock("ExecuteBlock", es.log[i].block)) = 1
    /\ \A b \in 0 .. MaxProposals : Cardinality(LogBlock("Proposed", b)) <= 1

\* The test's first block: BOB accuses ALICE, the evidence arrives, the
\* block is validated, announced and finalized.
C30_Witness ==
    /\ es.event = "FinalizeBlock"
    /\ es.height = 1
    /\ es.accused = {ALICE}
    /\ [i \in 1 .. Len(es.log) |-> es.log[i].type]
          = <<"ValidateBlock", "SendMessage", "Broadcast", "Proposed",
              "ExecuteBlock", "Finalized">>

\* The positions of the log where a block is announced finalized, in order.
FinalizedAt == {i \in 1 .. Len(es.log) : es.log[i].type = "Finalized"}

\* The validators block b accuses: those for whose evidence the node asked
\* on receipt of b, after b's validation request and before the next one.
BlockAccused(b) ==
    {v \in Validators :
        \E j \in LogEvidence("SendMessage", v) : \E k \in LogBlock("ValidateBlock", b) :
            /\ k < j
            /\ \A m \in (k + 1) .. (j - 1) : es.log[m].type # "ValidateBlock"}

\* C31: a finalized block that is not the era's last has era_end None; the
\* era's last block has an era_end whose equivocators include every
\* validator accused in a block finalized before it; the heights of the
\* finalized blocks are 0, 1, ... in the order of finalization.
C31_CrossBlockSlashing ==
    \A i \in FinalizedAt :
        LET fb == es.log[i].fb
            before == {j \in FinalizedAt : j < i}
        IN  /\ fb.height = Cardinality(before)
            /\ fb.height + 1 < EndHeight => fb.era_end = None
            /\ fb.height + 1 = EndHeight =>
                  /\ fb.era_end # None
                  /\ \A j \in before :
                        BlockAccused(es.log[j].block) \subseteq fb.era_end[1].equivocators

\* The test: BOB's first block accuses ALICE and is finalized at height 0
\* without era_end; the second accuses nobody and is the era's last.
C31_Witness ==
    /\ Cardinality(FinalizedAt) = 2
    /\ \E i \in FinalizedAt : \E j \in FinalizedAt :
          /\ i < j
          /\ BlockAccused(es.log[i].block) = {ALICE}
          /\ es.log[i].fb = [era_end |-> None, height |-> 0, proposer |-> BOB]
          /\ BlockAccused(es.log[j].block) = {}
          /\ es.log[j].fb = [era_end |-> EraEnd({ALICE}), height |-> 1, proposer |-> BOB]

\* ------------------------------------------------------------------ URef
\* types/src/uref.rs.  A string is a sequence of one-character strings; a
\* URef is [addr |-> sequence of UREF_ADDR_LENGTH bytes, rights |-> bits].

UREF_ADDR_LENGTH == 32

PREFIX == <<"u", "r", "e", "f", "-">>

\* The bits of AccessRights::READ_ADD_WRITE, all the flags there are.
READ_ADD_WRITE == 7

\* AccessRights::from_bits: None for bits outside the flags.
from_bits(bits) ==
    IF bits <= READ_ADD_WRITE THEN Some(bits) ELSE None

LowerHex == <<"0", "1", "2", "3", "4", "5", "6", "7",
              "8", "9", "a", "b", "c", "d", "e", "f">>
UpperHex == <<"0", "1", "2", "3", "4", "5", "6", "7",
              "8", "9", "A", "B", "C", "D", "E", "F">>
OctDigits == <<"0", "1", "2", "3", "4", "5", "6", "7">>

\* The value of digit c in the table, or -1.
DigitVal(table, c) ==
    IF \E i \in 1 .. Len(table) : table[i] = c
    THEN (CHOOSE i \in 1 .. Len(table) : table[i] = c) - 1
    ELSE -1

\* base16::encode_lower
encode_lower(bytes) ==
    [i \in 1 .. 2 * Len(bytes) |->
        LET b == bytes[(i + 1) \div 2]
        IN  LowerHex[(IF i % 2 = 1 THEN b \div 16 ELSE b % 16) + 1]]

\* The value of a hex digit of either case, or -1.
HexVal(c) ==
    IF DigitVal(LowerHex, c) >= 0 THEN DigitVal(LowerHex, c) ELSE DigitVal(UpperHex, c)

\* base16::decode: an error for an odd length or a character that is no
\* hex digit; both cases of the letters are accepted.
decode(str) ==
    IF Len(str) % 2 = 1 THEN [ok |-> FALSE, err |-> "Hex"]
    ELSE IF \E i \in 1 .. Len(str) : HexVal(str[i]) < 0 THEN [ok |-> FALSE, err |-> "Hex"]
    ELSE [ok |-> TRUE,
          val |-> [i \in 1 .. Len(str) \div 2 |->
                      16 * HexVal(str[2 * i - 1]) + HexVal(str[2 * i])]]

\* URefAddr::try_from(slice): the slice has exactly UREF_ADDR_LENGTH bytes.
addr_try_from(bytes) ==
    IF Len(bytes) = UREF_ADDR_LENGTH THEN [ok |-> TRUE, val |-> bytes]
    ELSE [ok |-> FALSE, err |-> "Address"]

\* The octal digits of n, without leading zeros ("0" for 0).
RECURSIVE Octal(_)
Octal(n) == IF n < 8 THEN <<OctDigits[n + 1]>> ELSE Append(Octal(n \div 8), OctDigits[(n % 8) + 1])

\* format!("{:03o}", n): padded with zeros to three digits.
RECURSIVE PadZero(_, _)
PadZero(str, width) == IF Len(str) >= width THEN str ELSE PadZero(<<"0">> \o str, width)

\* The number the octal digits stand for, stopping with -1 at the first
\* value that no longer fits in u8 (checked_mul, checked_add).
RECURSIVE OctalValue(_, _)
OctalValue(digits, acc) ==
    IF digits = <<>> THEN acc
    ELSE LET n == acc * 8 + DigitVal(OctDigits, Head(digits))
         IN  IF n > 255 THEN -1 ELSE OctalValue(Tail(digits), n)

\* u8::from_str_radix(src, 8): an optional "+", then at least one digit,
\* all of them octal, and a value that fits in u8.
from_str_radix(src) ==
    LET digits == IF src # <<>> /\ Head(src) = "+" THEN Tail(src) ELSE src
    IN  IF digits = <<>> THEN [ok |-> FALSE, err |-> "Int"]
        ELSE IF \E i \in 1 .. Len(digits) : DigitVal(OctDigits, digits[i]) < 0
        THEN [ok |-> FALSE, err |-> "Int"]
        ELSE IF OctalValue(digits, 0) < 0 THEN [ok |-> FALSE, err |-> "Int"]
        ELSE [ok |-> TRUE, val |-> OctalValue(digits, 0)]

\* to_formatted_string that does not pad the access rights.
to_formatted_string_NoPad(u) ==
    PREFIX \o encode_lower(u.addr) \o <<"-">> \o Octal(u.rights)

\* URef::to_formatted_string
to_formatted_string(u) ==
    PREFIX \o encode_lower(u.addr) \o <<"-">> \o PadZero(Octal(u.rights), 3)

\* str::strip_prefix(PREFIX)
strip_prefix(str) ==
    IF Len(str) >= Len(PREFIX) /\ SubSeq(str, 1, Len(PREFIX)) = PREFIX
    THEN Some(SubSeq(str, Len(PREFIX) + 1, Len(str)))
    ELSE None

\* str::splitn(2, '-'): the parts before and after the first '-', or the
\* string alone when it has none.
splitn(str) ==
    IF \E i \in 1 .. Len(str) : str[i] = "-"
    THEN LET i == CHOOSE k \in 1 .. Len(str) :
                      str[k] = "-" /\ \A m \in 1 .. (k - 1) : str[m] # "-"
         IN  <<SubSeq(str, 1, i - 1), SubSeq(str, i + 1, Len(str))>>
    ELSE <<str>>

\* from_formatted_str that takes any bits for access rights.
from_formatted_str_AnyBits(input) ==
    LET remainder == strip_prefix(input)
    IN  IF remainder = None THEN [ok |-> FALSE, err |-> "InvalidPrefix"]
        ELSE LET parts == splitn(remainder[1])
             IN  IF Len(parts) # 2 THEN [ok |-> FALSE, err |-> "MissingSuffix"]
                 ELSE LET bytes == decode(parts[1])
                      IN  IF ~bytes.ok THEN bytes
                          ELSE LET addr == addr_try_from(bytes.val)
                                   access_rights_value == from_str_radix(parts[2])
                               IN  IF ~addr.ok THEN addr
                                   ELSE IF ~access_rights_value.ok THEN access_rights_value
                                   ELSE [ok |-> TRUE,
                                         val |-> [addr |-> addr.val,
                                                  rights |-> access_rights_value.val]]

\* URef::from_formatted_str
from_formatted_str(input) ==
    LET remainder == strip_prefix(input)
    IN  IF remainder = None THEN [ok |-> FALSE, err |-> "InvalidPrefix"]
        ELSE LET parts == splitn(remainder[1])
             IN  IF Len(parts) # 2 THEN [ok |-> FALSE, err |-> "MissingSuffix"]
                 ELSE LET bytes == decode(parts[1])
                      IN  IF ~bytes.ok THEN bytes
                          ELSE LET addr == addr_try_from(bytes.val)
                                   access_rights_value == from_str_radix(parts[2])
                               IN  IF ~addr.ok THEN addr
                                   ELSE IF ~access_rights_value.ok THEN access_rights_value
                                   ELSE IF from_bits(access_rights_value.val) = None
                                   THEN [ok |-> FALSE, err |-> "InvalidAccessRights"]
                                   ELSE [ok |-> TRUE,
                                         val |-> [addr |-> addr.val,
                                                  rights |-> from_bits(access_rights_value.val)[1]]]

\* The bytes the addresses of the checked URefs are made of.
AddrBytes == {0, 1, 171, 255}

\* The checked addresses: a first byte and 31 equal bytes after it.
Addrs ==
    {[i \in 1 .. UREF_ADDR_LENGTH |-> IF i = 1 THEN b1 ELSE b2] :
        b1 \in AddrBytes, b2 \in AddrBytes}

\* The checked URefs: every valid AccessRights value for each address.
URefs == {[addr |-> a, rights |-> r] : a \in Addrs, r \in 0 .. READ_ADD_WRITE}

\* What is done to a formatted string before it is parsed.
Mutations ==
    {"none", "drop_first", "drop_dash", "upper_prefix", "empty",
     "short_addr", "long_addr", "odd_addr", "bad_hex", "upper_hex",
     "colon", "no_suffix", "empty_suffix", "letters", "bits_200",
     "overflow_400", "digit_8", "plus", "plus_only", "minus",
     "short_suffix", "long_suffix", "space"}

\* The parts of a formatted string s: prefix, address, separator, suffix.
AddrEnd == Len(PREFIX) + 2 * UREF_ADDR_LENGTH
AddrOf(s) == SubSeq(s, Len(PREFIX) + 1, AddrEnd)
SuffixOf(s) == SubSeq(s, AddrEnd + 2, Len(s))
Rebuild(prefix, addr, sep, suffix) == prefix \o addr \o sep \o suffix

ToUpper(c) == IF DigitVal(LowerHex, c) >= 0 THEN UpperHex[DigitVal(LowerHex, c) + 1] ELSE c

Mutate(s, m) ==
    LET addr == AddrOf(s)
        suffix == SuffixOf(s)
        dash == <<"-">>
    IN  CASE m = "none" -> s
          [] m = "drop_first" -> Tail(s)
          [] m = "drop_dash" -> Rebuild(<<"u", "r", "e", "f">>, addr, dash, suffix)
          [] m = "upper_prefix" -> Rebuild(<<"U", "R", "E", "F", "-">>, addr, dash, suffix)
          [] m = "empty" -> <<>>
          [] m = "short_addr" -> Rebuild(PREFIX, SubSeq(addr, 3, Len(addr)), dash, suffix)
          [] m = "long_addr" -> Rebuild(PREFIX, <<"0", "0">> \o addr, dash, suffix)
          [] m = "odd_addr" -> Rebuild(PREFIX, Tail(addr), dash, suffix)
          [] m = "bad_hex" -> Rebuild(PREFIX, [addr EXCEPT ![Len(addr)] = "g"], dash, suffix)
          [] m = "upper_hex" ->
                Rebuild(PREFIX, [i \in 1 .. Len(addr) |-> ToUpper(addr[i])], dash, suffix)
          [] m = "colon" -> Rebuild(PREFIX, addr, <<":">>, suffix)
          [] m = "no_suffix" -> PREFIX \o addr
          [] m = "empty_suffix" -> Rebuild(PREFIX, addr, dash, <<>>)
          [] m = "letters" -> Rebuild(PREFIX, addr, dash, <<"a", "b", "c">>)
          [] m = "bits_200" -> Rebuild(PREFIX, addr, dash, <<"2", "0", "0">>)
          [] m = "overflow_400" -> Rebuild(PREFIX, addr, dash, <<"4", "0", "0">>)
          [] m = "digit_8" -> Rebuild(PREFIX, addr, dash, <<"0", "0", "8">>)
          [] m = "plus" -> Rebuild(PREFIX, addr, dash, <<"+">> \o suffix)
          [] m = "plus_only" -> Rebuild(PREFIX, addr, dash, <<"+">>)
          [] m = "minus" -> Rebuild(PREFIX, addr, dash, <<"-">> \o suffix)
          [] m = "short_suffix" -> Rebuild(PREFIX, addr, dash, <<suffix[Len(suffix)]>>)
          [] m = "long_suffix" -> Rebuild(PREFIX, addr, dash, <<"0">> \o suffix)
          [] m = "space" -> Rebuild(PREFIX, addr, dash, suffix \o <<" ">>)

\* The variables the URef operations leave alone.
not_ur_vars == <<state, av, peer_av, pc, effects, call, scheduled, clock, seed, es, lc, hist>>

InitU ==
    /\ seed = 0
    /\ state = EmptyState
    /\ scheduled = -1
    /\ pc = "idle"
    /\ clock = 0
    /\ av = Fresh(ALICE, InitRoundExp)
    /\ peer_av = Fresh(BOB, InitRoundExp)
    /\ effects = <<>>
    /\ call = Call("none", 0, Null, av)
    /\ es = NoEra
    /\ ur = NoURef
    /\ lc = NoChain
    /\ hist = NoHist

\* uref.to_formatted_string()
ToFormattedString ==
    /\ ur.pc = "new"
    /\ \E u \in URefs :
          ur' = [pc |-> "formatted", uref |-> u, str |-> to_formatted_string(u),
                 result |-> <<>>]
    /\ UNCHANGED not_ur_vars

\* URef::from_formatted_str(input), for the formatted string or a
\* malformed variant of it.
FromFormattedStr ==
    /\ ur.pc = "formatted"
    /\ \E m \in Mutations :
          LET input == Mutate(ur.str, m)
          IN  ur' = [ur EXCEPT !.pc = "parsed", !.str = input,
                               !.result = from_formatted_str(input)]
    /\ UNCHANGED not_ur_vars

NextU ==
    \/ ToFormattedString
    \/ FromFormattedStr

SpecU == InitU /\ [][NextU]_vars

\* The characters of a string.
Chars(s) == {s[i] : i \in 1 .. Len(s)}

LowerHexChars == Chars(LowerHex)
HexChars == Chars(LowerHex) \cup Chars(UpperHex)
OctChars == Chars(OctDigits)

\* Whether s is a formatted URef: 'uref-', 64 lowercase hex digits, '-',
\* three octal digits.
IsFormatted(s) ==
    /\ Len(s) = 5 + 64 + 1 + 3
    /\ SubSeq(s, 1, 5) = <<"u", "r", "e", "f", "-">>
    /\ \A i \in 6 .. 69 : s[i] \in LowerHexChars
    /\ s[70] = "-"
    /\ \A i \in 71 .. 73 : s[i] \in OctChars

\* C32: the formatted string of a URef has the form 'uref-' + 64 lowercase
\* hex digits + '-' + three octal digits, no other checked URef has the
\* same string, and parsing it returns Ok of the URef.
C32_RoundTrip ==
    /\ ur.pc = "formatted" =>
          /\ IsFormatted(ur.str)
          /\ \A u \in URefs : to_formatted_string(u) = ur.str => u = ur.uref
    /\ (ur.pc = "parsed" /\ IsFormatted(ur.str)
            /\ ur.str = to_formatted_string(ur.uref)) =>
          ur.result = [ok |-> TRUE, val |-> ur.uref]

\* round_trip(URef::new([255; 32], AccessRights::READ_ADD_WRITE))
C32_Witness ==
    /\ ur.pc = "parsed"
    /\ ur.uref = [addr |-> [i \in 1 .. 32 |-> 255], rights |-> 7]
    /\ ur.str = <<"u", "r", "e", "f", "-">> \o [i \in 1 .. 64 |-> "f"]
                    \o <<"-", "0", "0", "7">>
    /\ ur.result = [ok |-> TRUE, val |-> ur.uref]

\* The input without its 'uref-' prefix.
InputRest == SubSeq(ur.str, 6, Len(ur.str))

\* The position of the first '-' of the rest (0 when it has none).
FirstDash ==
    IF "-" \in Chars(InputRest)
    THEN CHOOSE k \in 1 .. Len(InputRest) :
             InputRest[k] = "-" /\ \A m \in 1 .. (k - 1) : InputRest[m] # "-"
    ELSE 0

InputAddr == SubSeq(InputRest, 1, FirstDash - 1)
InputSuffix == SubSeq(InputRest, FirstDash + 1, Len(InputRest))

\* The digits of the suffix: Rust's integer parsing allows one '+' sign
\* before them.
InputDigits ==
    IF InputSuffix # <<>> /\ InputSuffix[1] = "+" THEN Tail(InputSuffix) ELSE InputSuffix

\* The number a sequence of octal digits stands for.
RECURSIVE OctNum(_)
OctNum(d) ==
    IF d = <<>> THEN 0
    ELSE 8 * OctNum(SubSeq(d, 1, Len(d) - 1)) + DigitVal(OctDigits, d[Len(d)])

BadPrefix == Len(ur.str) < 5 \/ SubSeq(ur.str, 1, 5) # <<"u", "r", "e", "f", "-">>
NoSeparator == ~BadPrefix /\ FirstDash = 0
BadAddress ==
    /\ ~BadPrefix /\ ~NoSeparator
    /\ (Len(InputAddr) # 64 \/ ~(Chars(InputAddr) \subseteq HexChars))
BadSuffix ==
    /\ ~BadPrefix /\ ~NoSeparator
    /\ \/ InputDigits = <<>>
       \/ ~(Chars(InputDigits) \subseteq OctChars)
       \/ OctNum(InputDigits) > 255
BadAccessRights ==
    /\ ~BadPrefix /\ ~NoSeparator /\ ~BadSuffix
    /\ OctNum(InputDigits) \notin {0, 1, 2, 3, 4, 5, 6, 7}

\* C33: from_formatted_str returns an error for an input with a wrong or
\* missing 'uref-' prefix, without '-' before the suffix, with an address
\* that is not 64 hex digits, with a suffix that is not an octal number
\* fitting in u8, or with bits that are no AccessRights value.
C33_ParseErrors ==
    (ur.pc = "parsed"
        /\ (BadPrefix \/ NoSeparator \/ BadAddress \/ BadSuffix \/ BadAccessRights))
    => ~ur.result.ok

\* The test's invalid_access_rights: the suffix 200 is octal and fits in
\* u8, but the bits are no AccessRights value.
C33_Witness ==
    /\ ur.pc = "parsed"
    /\ ur.uref.addr = [i \in 1 .. 32 |-> 0]
    /\ ur.str = <<"u", "r", "e", "f", "-">> \o [i \in 1 .. 64 |-> "0"]
                    \o <<"-", "2", "0", "0">>
    /\ BadAccessRights
    /\ ur.result = [ok |-> FALSE, err |-> "InvalidAccessRights"]

\* The error of each class of malformed input; every other input parses.
C33_ErrorKinds ==
    ur.pc = "parsed" =>
        /\ BadPrefix => ur.result = [ok |-> FALSE, err |-> "InvalidPrefix"]
        /\ NoSeparator => ur.result = [ok |-> FALSE, err |-> "MissingSuffix"]
        /\ BadAddress => ~ur.result.ok /\ ur.result.err \in {"Hex", "Address"}
        /\ (BadSuffix /\ ~BadAddress) => ur.result = [ok |-> FALSE, err |-> "Int"]
        /\ (BadAccessRights /\ ~BadAddress) =>
              ur.result = [ok |-> FALSE, err |-> "InvalidAccessRights"]
        /\ ~(BadPrefix \/ NoSeparator \/ BadAddress \/ BadSuffix \/ BadAccessRights)
              => ur.result.ok

\* ---------------------------------------------------------- linear chain
\* components/linear_chain.rs.  A block is its height.  lc is
\*   last_block  LinearChain::last_block
\*   prev        last_block before the last step
\*   putting     the blocks whose put request is with the storage
\*   completing  the blocks the storage has put and whose PutBlockResult
\*               event is queued
\*   signing     the blocks whose finality signature is awaited
\*   getting     the block hashes whose get request is with the storage
\*   stored      the blocks in the storage
\*   produced    the number of blocks consensus has produced
\*   event       the last event handled
\*   response    the answer to the last request, if any

\* Largest number of blocks consensus produces.
MaxChain == 3

Blocks == 0 .. (MaxChain - 1)

\* The handler of LinearChainBlock that records the block at once.
lc_linear_chain_block_SetsLast(l, block) ==
    [l EXCEPT !.prev = l.last_block, !.last_block = Some(block),
              !.putting = @ \cup {block},
              !.event = [type |-> "LinearChainBlock", block |-> block],
              !.response = None]

\* handle_event(LinearChainBlock(block)): the block is put to storage; the
\* reply comes back as PutBlockResult.
lc_linear_chain_block(l, block) ==
    [l EXCEPT !.prev = l.last_block,
              !.putting = @ \cup {block},
              !.event = [type |-> "LinearChainBlock", block |-> block],
              !.response = None]

\* handle_event(PutBlockResult(block)): last_block is set; the block's
\* header goes to consensus for the finality signature.
lc_put_block_result(l, block) ==
    [l EXCEPT !.prev = l.last_block, !.last_block = Some(block),
              !.completing = @ \ {block}, !.signing = @ \cup {block},
              !.event = [type |-> "PutBlockResult", block |-> block],
              !.response = None]

\* handle_event(NewFinalitySignature(bh, signature)): the block is read
\* from storage and put back with the signature.
lc_new_finality_signature(l, bh) ==
    [l EXCEPT !.prev = l.last_block, !.signing = @ \ {bh},
              !.event = [type |-> "NewFinalitySignature", block |-> bh],
              !.response = None]

\* handle_event(Request(LastFinalizedBlock(responder))): the responder
\* gets last_block.
lc_last_finalized_block(l) ==
    [l EXCEPT !.prev = l.last_block,
              !.event = [type |-> "LastFinalizedBlock"],
              !.response = Some(l.last_block)]

\* handle_event(Request(BlockRequest(bh, sender))): the block is asked
\* from storage; the reply comes back as GetBlockResult.
lc_block_request(l, bh) ==
    [l EXCEPT !.prev = l.last_block, !.getting = @ \cup {bh},
              !.event = [type |-> "BlockRequest", block |-> bh],
              !.response = None]

\* handle_event(GetBlockResult(bh, maybe_block, sender)): a block that was
\* found is sent to the sender.
lc_get_block_result(l, bh) ==
    [l EXCEPT !.prev = l.last_block, !.getting = @ \ {bh},
              !.event = [type |-> "GetBlockResult", block |-> bh],
              !.response = IF bh \in l.stored THEN Some(Some(bh)) ELSE None]

\* The variables the linear chain leaves alone.
not_lc_vars == <<state, av, peer_av, pc, effects, call, scheduled, clock, seed, es, ur, hist>>

InitL ==
    /\ seed = 0
    /\ state = EmptyState
    /\ scheduled = -1
    /\ pc = "idle"
    /\ clock = 0
    /\ av = Fresh(ALICE, InitRoundExp)
    /\ peer_av = Fresh(BOB, InitRoundExp)
    /\ effects = <<>>
    /\ call = Call("none", 0, Null, av)
    /\ es = NoEra
    /\ ur = NoURef
    /\ lc = NoChain
    /\ hist = NoHist

\* Consensus produces the next block of the chain.
LinearChainBlock ==
    /\ lc.produced < MaxChain
    /\ lc' = [lc_linear_chain_block(lc, lc.produced) EXCEPT !.produced = @ + 1]
    /\ UNCHANGED not_lc_vars

\* The storage completes one of the put requests it holds, in any order.
StoragePut ==
    /\ \E b \in lc.putting :
          lc' = [lc EXCEPT !.prev = lc.last_block, !.putting = @ \ {b},
                           !.stored = @ \cup {b}, !.completing = @ \cup {b}]
    /\ UNCHANGED not_lc_vars

\* One of the queued PutBlockResult events is handled.
PutBlockResult ==
    /\ \E b \in lc.completing : lc' = lc_put_block_result(lc, b)
    /\ UNCHANGED not_lc_vars

NewFinalitySignature ==
    /\ \E b \in lc.signing : lc' = lc_new_finality_signature(lc, b)
    /\ UNCHANGED not_lc_vars

LastFinalizedBlock ==
    /\ lc.event.type # "LastFinalizedBlock"
    /\ lc' = lc_last_finalized_block(lc)
    /\ UNCHANGED not_lc_vars

\* A peer asks for a block; one request is in flight at a time.
BlockRequest ==
    /\ lc.getting = {}
    /\ lc.event.type # "GetBlockResult"
    /\ \E bh \in Blocks : lc' = lc_block_request(lc, bh)
    /\ UNCHANGED not_lc_vars

GetBlockResult ==
    /\ \E bh \in lc.getting : lc' = lc_get_block_result(lc, bh)
    /\ UNCHANGED not_lc_vars

NextL ==
    \/ LinearChainBlock
    \/ StoragePut
    \/ PutBlockResult
    \/ NewFinalitySignature
    \/ LastFinalizedBlock
    \/ BlockRequest
    \/ GetBlockResult

SpecL == InitL /\ [][NextL]_vars

\* C34: last_block is None initially; handling LinearChainBlock leaves it
\* as it was; handling PutBlockResult(b) sets it to b, and nothing else
\* changes it; a LastFinalizedBlock request is answered with last_block
\* and leaves it as it was.
C34_LastBlock ==
    /\ lc.event.type = "new" => lc.last_block = None
    /\ lc.event.type = "LinearChainBlock" => lc.last_block = lc.prev
    /\ lc.event.type = "PutBlockResult" => lc.last_block = Some(lc.event.block)
    /\ lc.event.type = "LastFinalizedBlock" =>
          /\ lc.response = Some(lc.prev)
          /\ lc.last_block = lc.prev
    /\ lc.last_block # lc.prev => lc.event.type = "PutBlockResult"

\* A LastFinalizedBlock request is answered with block 0 while block 1 is
\* produced and its put has not come back.
C34_Witness ==
    /\ lc.event.type = "LastFinalizedBlock"
    /\ lc.response = Some(Some(0))
    /\ lc.last_block = Some(0)
    /\ 1 \in lc.putting \cup lc.completing

\* last_block is unchanged right after a LinearChainBlock event.
C34_WitnessBlock ==
    /\ lc.event = [type |-> "LinearChainBlock", block |-> 1]
    /\ lc.last_block = Some(0)

\* The height of an optional block; -1 for None.
HeightOf(opt) == IF opt = None THEN -1 ELSE opt[1]

\* The blocks whose PutBlockResult has been handled.
PutCompleted == (lc.stored \ lc.completing)

\* C40: the height of last_block never decreases, and last_block is the
\* highest block whose put has completed, whatever the order in which the
\* puts complete.
C40_NeverBackwards ==
    /\ HeightOf(lc.prev) <= HeightOf(lc.last_block)
    /\ \A b \in PutCompleted : b <= HeightOf(lc.last_block)

\* The put of block 1 comes back before the put of block 0: last_block
\* goes from block 1 back to block 0.
C40_Backwards ==
    /\ lc.event = [type |-> "PutBlockResult", block |-> 0]
    /\ lc.prev = Some(1)
    /\ lc.last_block = Some(0)

\* C36: every unit with a value that a call returns is a correct proposal:
\* its timestamp is the round id of that timestamp under the unit's own
\* round exponent, and its creator leads that round.
C36_ProposalsCorrect ==
    pc = "returned" =>
        \A w \in Emitted :
            w.value # NoValue =>
                /\ w.timestamp = round_id(w.timestamp, w.round_exp)
                /\ leader(w.timestamp) = w.creator

\* set_round_exp came between the block request and propose: the proposal
\* carries the new exponent, under which its timestamp starts no round.
C36_Misaligned ==
    /\ Returned("propose")
    /\ \E w \in Emitted :
          /\ w.value # NoValue
          /\ w.round_exp = call.av.next_round_exp
          /\ w.timestamp # round_id(w.timestamp, w.round_exp)
          /\ leader(w.timestamp) = w.creator

\* C37: handle_timer returns at most one ScheduleTimer, as the first
\* effect, and at most one effect besides it, a RequestNewBlock or a unit;
\* at the start of a round the validator leads it returns no witness unit
\* next to the block request: the only unit of such a tick is the
\* value-less one that stands for the request when the parent is terminal.
C37_TimerEffectShape ==
    Returned("handle_timer") =>
        /\ Len(TimerEffects(effects)) <= 1
        /\ TimerEffects(effects) # <<>> => effects[1].type = "ScheduleTimer"
        /\ Len(effects) - Len(TimerEffects(effects)) <= 1
        /\ \A i \in 1 .. Len(effects) :
              \/ effects[i].type \in {"ScheduleTimer", "RequestNewBlock"}
              \/ effects[i].type = "NewVertex" /\ effects[i].vertex = "Unit"
        /\ ~(BlockRequests # <<>> /\ Emitted # {})
        /\ AtLeaderTick => \A w \in Emitted : w.value = NoValue /\ ParentTerminal(call.time)

\* handle_timer at the start of a round the validator leads returns the
\* next timer and then the block request, as in the test.
C37_Witness ==
    /\ AtLeaderTick
    /\ Len(effects) = 2
    /\ effects[1].type = "ScheduleTimer"
    /\ effects[2].type = "RequestNewBlock"

\* handle_timer at the witness time returns the next timer and then the
\* witness unit.
C37_WitnessUnit ==
    /\ AtWitnessTick
    /\ Len(effects) = 2
    /\ effects[1].type = "ScheduleTimer"
    /\ effects[2].type = "NewVertex"

\* ------------------------------------------------------ the timer schedule
\* A host that calls handle_timer exactly at every scheduled time, for a
\* validator that stays honest and keeps its round exponent.

\* The last time of the run.
Horizon == 7

\* The largest number of units of the peer in the run.
MaxPeerUnits == 2

StartsW == 0 .. 2

InitW ==
    /\ seed \in {0, 1, 2}
    /\ state = EmptyState
    /\ es = NoEra
    /\ ur = NoURef
    /\ lc = NoChain
    /\ pc = "idle"
    /\ clock \in StartsW
    /\ hist = [start |-> clock, calls |-> {}]
    /\ \E start_time \in {clock}, e \in Exps :
          LET r == schedule_timer(Fresh(ALICE, e), start_time, state)
          IN  /\ av = r.av
              /\ peer_av = Fresh(BOB, e)
              /\ effects = r.effects
              /\ scheduled = MaxTimer(TimerEffects(r.effects), -1)
              /\ call = Call("new", start_time, Null, Fresh(ALICE, e))

\* The record of a handle_timer call at t: whether the cut-off citable
\* panorama had a correct unit, whether the validator's next unit could be
\* that early, and whether the call returned a witness unit.
TimerCall(a, t, st, effs) ==
    [time |-> t,
     correct |-> has_correct(cutoff(citable_panorama(st), st, t)),
     early |-> earliest_unit_time(a, st) <= t,
     witness |-> \E i \in 1 .. Len(effs) :
                    /\ effs[i].type = "NewVertex"
                    /\ effs[i].vertex = "Unit"
                    /\ effs[i].unit.timestamp = t
                    /\ effs[i].unit.value = NoValue
                    /\ effs[i].unit.creator = a.vidx]

\* The host handles what a call returned: it adds the units to the state
\* and sets the timer.
Handled(r, c, st) ==
    /\ av' = r.av
    /\ effects' = r.effects
    /\ call' = c
    /\ state' = AddUnits(st, UnitEffects(r.effects))
    /\ scheduled' = MaxTimer(TimerEffects(r.effects), scheduled)
    /\ UNCHANGED <<peer_av, pc, clock, seed, es, ur, lc>>

\* The scheduled time has come: the host calls handle_timer.
FireTimer ==
    /\ scheduled = clock
    /\ \E r \in {handle_timer(av, clock, state)} :
          /\ Handled(r, Call("handle_timer", clock, Null, av), state)
          /\ hist' = [hist EXCEPT !.calls = @ \cup {TimerCall(av, clock, state, r.effects)}]

\* The host answers the pending block request.
ProposeW ==
    /\ av.next_proposal # None
    /\ \E value \in Values :
          \E r \in {propose(av, value, av.next_proposal[1].time, state)} :
              Handled(r, Call("propose", av.next_proposal[1].time, Null, av), state)
    /\ UNCHANGED hist

\* A unit of the peer arrives: the host adds it to the state and calls
\* on_new_unit.
PeerUnitW ==
    /\ Cardinality({h \in Hashes(state) : state.units[h].creator = BOB}) < MaxPeerUnits
    /\ \E w \in PeerUnits(state, clock) :
          \E st \in {add_unit(state, w)} :
              \E r \in {on_new_unit(av, Len(st.units), clock, st)} :
                  Handled(r, Call("on_new_unit", clock, Len(st.units), av), st)
    /\ UNCHANGED hist

\* Time passes once the timer that is due has been handled.
TickW ==
    /\ scheduled # clock
    /\ clock < Horizon
    /\ clock' = clock + 1
    /\ UNCHANGED <<state, av, peer_av, pc, effects, call, scheduled, seed, es, ur, lc, hist>>

NextW ==
    \/ FireTimer
    \/ ProposeW
    \/ PeerUnitW
    \/ TickW

\* A timer is due: FireTimer is enabled in exactly these states.
TimerDue == scheduled = clock

\* A step of FireTimer: a step from a state with a due timer to one whose
\* last call is the handle_timer call for it.
TimerFired ==
    /\ TimerDue
    /\ call' = Call("handle_timer", clock, Null, av)

\* Weak fairness of FireTimer, WF_vars(FireTimer), spelled out over its
\* enabling condition and its steps.
FireTimerFair == []<>~TimerDue \/ []<><<TimerFired>>_vars

\* Time passes and due timers fire.
SpecW ==
    /\ InitW
    /\ [][NextW]_vars
    /\ WF_vars(TickW)
    /\ FireTimerFair

\* The starts of the rounds of exponent e after time s whose witness time
\* is within the run.
RoundsAfter(s, e) ==
    {r \in 0 .. Horizon :
        /\ r % round_len(e) = 0
        /\ r > s
        /\ r + witness_offset(round_len(e)) <= Horizon}

\* The witness time of the round that starts at r.
WitnessTime(r, e) == r + witness_offset(round_len(e))

\* The rounds the run has to cover: those after the start time.
Rounds == RoundsAfter(hist.start, av.next_round_exp)

\* handle_timer was called at the start of every round the validator leads.
LedRoundsCalled ==
    \A r \in Rounds :
        (leader(r) = ALICE) => \E c \in hist.calls : c.time = r

\* The run is over: the horizon is reached and nothing is left to handle.
RunOver ==
    /\ clock = Horizon
    /\ pc = "idle"
    /\ scheduled # clock

Covered ==
    /\ LedRoundsCalled
    /\ \A r \in Rounds :
          \E c \in hist.calls :
              /\ c.time = WitnessTime(r, av.next_round_exp)
              /\ (c.correct /\ c.early) => c.witness

C38_Skipped ==
    \E r \in Rounds : \E c \in hist.calls :
        /\ c.time = WitnessTime(r, av.next_round_exp)
        /\ c.correct
        /\ ~c.early
        /\ ~c.witness

Outdated == earliest_unit_time(call.av, state) > call.time

\* The validator of the last call knew it was faulty.
KnownFaulty == is_faulty(call.av, state)

\* The value of the last propose call came for another time than the one
\* of the pending request.
Mismatch ==
    /\ ~Outdated
    /\ ~KnownFaulty
    /\ call.av.next_proposal # None
    /\ call.av.next_proposal[1].time # call.time

\* C39: a propose rejected for a timestamp mismatch returns nothing and
\* leaves no pending proposal, so a value for the requested time is rejected
\* afterwards; a propose rejected as outdated or because the validator is
\* faulty returns nothing and leaves the validator as it was, so with a
\* pending proposal request_new_block returns nothing at any time; and a
\* pending proposal is given up only by a call that constructs a unit or by
\* a mismatched propose.
C39_RejectedPropose ==
    /\ (Returned("propose") /\ Mismatch) =>
          /\ effects = <<>>
          /\ av.next_proposal = None
          /\ \A value \in Values :
                propose(av, value, call.av.next_proposal[1].time, state).effects = <<>>
    /\ (Returned("propose") /\ (Outdated \/ KnownFaulty)) =>
          /\ effects = <<>>
          /\ av = call.av
          /\ (av.next_proposal # None) =>
                \A t \in 0 .. MaxTime : request_new_block(av, state, t).effects = <<>>
    /\ (pc = "returned" /\ call.av.next_proposal # None /\ av.next_proposal = None) =>
          \/ Emitted # {}
          \/ Returned("propose") /\ Mismatch

\* A value for another time than the requested one came back and the
\* request is gone.
C39_Witness ==
    /\ Returned("propose")
    /\ Mismatch
    /\ av.next_proposal = None
    /\ effects = <<>>

\* An outdated value came back while a request was pending.
C39_WitnessOutdated ==
    /\ Returned("propose")
    /\ Outdated
    /\ av.next_proposal # None

\* A value came back to a validator that knows it is faulty, with a request
\* pending.
C39_WitnessFaulty ==
    /\ Returned("propose")
    /\ ~Outdated
    /\ KnownFaulty
    /\ av.next_proposal # None

====
